---------------------------- MODULE Spec2Model ----------------------------
(***************************************************************************)
(* Model of the Open Dental assistant: the kiosk search blueprint          *)
(* (routes/kiosk.py), the dashboard API (server.py), the data access       *)
(* module (db.py) and the command line entry point (main.py).              *)
(*                                                                         *)
(* Python str values are TLA+ strings; a character is a string of length   *)
(* one, taken with SubSeq(s, i, i).  Python None is the value None for a   *)
(* str-or-None value and NoDate for a date-or-None value.                  *)
(***************************************************************************)
EXTENDS Integers, Sequences, FiniteSets, TLC

(***************************************************************************)
(* Python str methods, computed character by character.  The alphabet of   *)
(* the model is ASCII: letters, digits, space and punctuation.             *)
(***************************************************************************)
None == "<None>"

UpperChars == "ABCDEFGHIJKLMNOPQRSTUVWXYZ"

LowerChars == "abcdefghijklmnopqrstuvwxyz"

DigitChars == "0123456789"

CharAt(s, i) == SubSeq(s, i, i)

IndexIn(alphabet, c) ==
    IF \E i \in 1..Len(alphabet) : CharAt(alphabet, i) = c
    THEN CHOOSE i \in 1..Len(alphabet) : CharAt(alphabet, i) = c
    ELSE 0

IsDigit(c) == IndexIn(DigitChars, c) > 0

DigitSet == {CharAt(DigitChars, i) : i \in 1..Len(DigitChars)}

Whitespace == {" "}

LowerChar(c) ==
    LET i == IndexIn(UpperChars, c) IN IF i > 0 THEN CharAt(LowerChars, i) ELSE c

UpperChar(c) ==
    LET i == IndexIn(LowerChars, c) IN IF i > 0 THEN CharAt(UpperChars, i) ELSE c

\* the characters of s that are in chars, in order
RECURSIVE KeepChars(_, _)
KeepChars(s, chars) ==
    IF Len(s) = 0 THEN ""
    ELSE (IF CharAt(s, 1) \in chars THEN CharAt(s, 1) ELSE "") \o KeepChars(Tail(s), chars)

\* str.lower()
RECURSIVE Lower(_)
Lower(s) == IF Len(s) = 0 THEN "" ELSE LowerChar(CharAt(s, 1)) \o Lower(Tail(s))

\* str.upper()
RECURSIVE Upper(_)
Upper(s) == IF Len(s) = 0 THEN "" ELSE UpperChar(CharAt(s, 1)) \o Upper(Tail(s))

\* str.startswith(p)
StartsWith(s, p) == Len(p) <= Len(s) /\ SubSeq(s, 1, Len(p)) = p

\* str.endswith(p)
EndsWith(s, p) == Len(p) <= Len(s) /\ SubSeq(s, Len(s) - Len(p) + 1, Len(s)) = p

\* sub in s
Contains(s, sub) ==
    \E i \in 1..(Len(s) - Len(sub) + 1) : SubSeq(s, i, i + Len(sub) - 1) = sub

\* str.lstrip(chars)
RECURSIVE LStrip(_, _)
LStrip(s, chars) ==
    IF Len(s) > 0 /\ CharAt(s, 1) \in chars THEN LStrip(Tail(s), chars) ELSE s

\* str.rstrip(chars)
RECURSIVE RStrip(_, _)
RStrip(s, chars) ==
    IF Len(s) > 0 /\ CharAt(s, Len(s)) \in chars
    THEN RStrip(SubSeq(s, 1, Len(s) - 1), chars)
    ELSE s

\* str.strip()
Strip(s) == RStrip(LStrip(s, Whitespace), Whitespace)

\* position of the first occurrence of the character sep in s, 0 when absent
FirstIndex(s, sep) ==
    IF \E i \in 1..Len(s) : CharAt(s, i) = sep
    THEN CHOOSE i \in 1..Len(s) :
            CharAt(s, i) = sep /\ \A j \in 1..(i - 1) : CharAt(s, j) # sep
    ELSE 0

\* str.split(sep) for a one-character separator: a sequence of strings
RECURSIVE Split(_, _)
Split(s, sep) ==
    LET i == FirstIndex(s, sep) IN
    IF i = 0 THEN <<s>>
    ELSE <<SubSeq(s, 1, i - 1)>> \o Split(SubSeq(s, i + 1, Len(s)), sep)

\* sep.join(parts)
RECURSIVE Join(_, _)
Join(parts, sep) ==
    IF Len(parts) = 0 THEN ""
    ELSE IF Len(parts) = 1 THEN parts[1]
    ELSE parts[1] \o sep \o Join(Tail(parts), sep)

\* value of a string of decimal digits
RECURSIVE DigitsValue(_)
DigitsValue(s) ==
    IF Len(s) = 0 THEN 0
    ELSE 10 * DigitsValue(SubSeq(s, 1, Len(s) - 1))
         + (IndexIn(DigitChars, CharAt(s, Len(s))) - 1)

AllDigits(s) == Len(s) > 0 /\ \A i \in 1..Len(s) : IsDigit(CharAt(s, i))

\* n written with at least width digits, zero padded (the %02d of strftime)
RECURSIVE NatStr(_)
NatStr(n) ==
    IF n < 10 THEN CharAt(DigitChars, n + 1)
    ELSE NatStr(n \div 10) \o CharAt(DigitChars, (n % 10) + 1)

Pad2(n) == IF n < 10 THEN "0" \o NatStr(n) ELSE NatStr(n)

(***************************************************************************)
(* datetime.date and datetime.datetime values.  A date is a record         *)
(* [year, month, day], a datetime has hour and minute as well; NoDate is   *)
(* None where a date is expected.                                          *)
(***************************************************************************)
NoDate == [none |-> TRUE]

IsLeap(y) == (y % 4 = 0 /\ y % 100 # 0) \/ y % 400 = 0

DaysInMonth(y, m) ==
    IF m = 2 THEN (IF IsLeap(y) THEN 29 ELSE 28)
    ELSE IF m \in {4, 6, 9, 11} THEN 30 ELSE 31

\* the argument check of the date(year, month, day) constructor
ValidDate(y, m, d) ==
    /\ y \in 1..9999
    /\ m \in 1..12
    /\ d \in 1..DaysInMonth(y, m)

MkDate(y, m, d) == [year |-> y, month |-> m, day |-> d]

\* datetime.date()
DateOf(dt) == MkDate(dt.year, dt.month, dt.day)

MonthNames ==
    <<"January", "February", "March", "April", "May", "June", "July",
      "August", "September", "October", "November", "December">>

\* d.isoformat() of a date
IsoFormat(d) ==
    (IF d.year < 1000 THEN "0" ELSE "") \o (IF d.year < 100 THEN "0" ELSE "")
    \o (IF d.year < 10 THEN "0" ELSE "") \o NatStr(d.year)
    \o "-" \o Pad2(d.month) \o "-" \o Pad2(d.day)

\* dt.strftime("%I:%M %p")
StrfTime12(dt) ==
    Pad2(((dt.hour + 11) % 12) + 1) \o ":" \o Pad2(dt.minute) \o " "
    \o (IF dt.hour < 12 THEN "AM" ELSE "PM")

\* d.strftime("%B %d, %Y")
StrfLongDate(d) ==
    MonthNames[d.month] \o " " \o Pad2(d.day) \o ", " \o NatStr(d.year)

(***************************************************************************)
(* int(s): surrounding whitespace and one sign are accepted, then decimal  *)
(* digits.  The result is [ok, value]; ok = FALSE is ValueError.           *)
(***************************************************************************)
IntParse(s) ==
    LET t == Strip(s)
        signed == Len(t) > 0 /\ CharAt(t, 1) \in {"+", "-"}
        body == IF signed THEN Tail(t) ELSE t
    IN  IF AllDigits(body)
        THEN [ok |-> TRUE,
              value |-> IF signed /\ CharAt(t, 1) = "-"
                        THEN 0 - DigitsValue(body) ELSE DigitsValue(body)]
        ELSE [ok |-> FALSE, value |-> 0]

\* the year, month and day fields of an ISO calendar date string: the extended
\* form YYYY-MM-DD and the basic form YYYYMMDD that date.fromisoformat takes
\* since Python 3.11; the week forms (YYYY-Www-D) are not among the inputs
IsoFields(s) ==
    IF Len(s) = 10 /\ CharAt(s, 5) = "-" /\ CharAt(s, 8) = "-"
    THEN <<SubSeq(s, 1, 4), SubSeq(s, 6, 7), SubSeq(s, 9, 10)>>
    ELSE IF Len(s) = 8
    THEN <<SubSeq(s, 1, 4), SubSeq(s, 5, 6), SubSeq(s, 7, 8)>>
    ELSE <<"", "", "">>

\* Mutation of FromIsoFormat: the fields are not checked against the calendar.
FromIsoFormatUnchecked(s) ==
    LET f == IsoFields(s)
    IN  IF \A i \in 1..3 : AllDigits(f[i])
        THEN [ok |-> TRUE,
              date |-> MkDate(DigitsValue(f[1]), DigitsValue(f[2]), DigitsValue(f[3]))]
        ELSE [ok |-> FALSE, date |-> NoDate]

\* date.fromisoformat(s); ok = FALSE is ValueError
FromIsoFormat(s) ==
    LET f == IsoFields(s)
    IN  IF /\ \A i \in 1..3 : AllDigits(f[i])
           /\ ValidDate(DigitsValue(f[1]), DigitsValue(f[2]), DigitsValue(f[3]))
        THEN [ok |-> TRUE,
              date |-> MkDate(DigitsValue(f[1]), DigitsValue(f[2]), DigitsValue(f[3]))]
        ELSE [ok |-> FALSE, date |-> NoDate]

(***************************************************************************)
(* routes/kiosk.py: the pure helpers of the kiosk blueprint.               *)
(***************************************************************************)
_PROC_MAP ==
    << <<"ImpCrPrep", "Implant Crown Prep">>,
       <<"ImpCr", "Implant Crown">>,
       <<"PFMSeat", "Crown Placement">>,
       <<"PFMPrep", "Crown Preparation">>,
       <<"PFM", "Crown">>,
       <<"SRPMaxSext", "Deep Cleaning">>,
       <<"SRPMandSext", "Deep Cleaning">>,
       <<"SRP", "Deep Cleaning">>,
       <<"RCT", "Root Canal">>,
       <<"Perio", "Gum Treatment">>,
       <<"BWX", "X-Rays">>,
       <<"FMX", "Full X-Rays">>,
       <<"PA", "X-Ray">>,
       <<"CompF", "Filling">>,
       <<"CompA", "Filling">>,
       <<"Comp", "Filling">>,
       <<"Ext", "Extraction">>,
       <<"Pre-fab", "Post Placement">>,
       <<"Core", "Build-Up">>,
       <<"Seat", "Crown Seating">>,
       <<"Post", "Post Placement">>,
       <<"Pro", "Cleaning">>,
       <<"Ex", "Exam">>,
       <<"Bl", "Whitening">>,
       <<"Ven", "Veneer">> >>

_NON_PERSON == {"PC", "LLC", "INC", "GROUP", "DENTAL", "ASSOCIATES", "CARE"}

\* x or "": None and the empty string both give ""
OrEmpty(x) == IF x = None THEN "" ELSE x

\* part.split("-", 1)[-1] if "-" in part else part
ProcCode(part) ==
    LET i == FirstIndex(part, "-") IN
    IF i > 0 THEN SubSeq(part, i + 1, Len(part)) ELSE part

\* Mutation of ProcLabel: the last matching entry of the table wins.
ProcLabelLastMatch(code) ==
    LET hits == {i \in 1..Len(_PROC_MAP) :
                    Contains(Lower(code), Lower(_PROC_MAP[i][1]))}
    IN  IF hits = {} THEN "Dental Visit"
        ELSE _PROC_MAP[CHOOSE i \in hits : \A j \in hits : i >= j][2]

\* next((v for k, v in _PROC_MAP if k.lower() in code.lower()), None) or "Dental Visit"
ProcLabel(code) ==
    LET hits == {i \in 1..Len(_PROC_MAP) :
                    Contains(Lower(code), Lower(_PROC_MAP[i][1]))}
    IN  IF hits = {} THEN "Dental Visit"
        ELSE _PROC_MAP[CHOOSE i \in hits : \A j \in hits : i <= j][2]

\* the loop of _simplify_proc: labels in first-occurrence order, none repeated
RECURSIVE ProcLabels(_, _)
ProcLabels(parts, labels) ==
    IF Len(parts) = 0 THEN labels
    ELSE LET part == LStrip(Strip(parts[1]), {"#"})
             label == ProcLabel(ProcCode(part))
         IN  ProcLabels(Tail(parts),
                        IF \E i \in 1..Len(labels) : labels[i] = label
                        THEN labels ELSE Append(labels, label))

_simplify_proc(raw) ==
    IF raw = None \/ raw = "" THEN "Dental Visit"
    ELSE LET joined == Join(ProcLabels(Split(raw, ","), <<>>), ", ")
         IN  IF joined = "" THEN "Dental Visit" ELSE joined

_provider_name(apt) ==
    LET fname == Strip(OrEmpty(apt.ProvFName))
        lname == Strip(OrEmpty(apt.ProvLName))
        abbr == Strip(OrEmpty(apt.ProvAbbr))
    IN  IF /\ ~ \E tok \in _NON_PERSON : Contains(Upper(lname), tok)
           /\ fname # "" /\ lname # ""
        THEN "Dr. " \o fname \o " " \o lname
        ELSE IF StartsWith(Lower(abbr), "dr") THEN abbr
        ELSE "our dental team"

_fmt_date(d) == IF d = NoDate THEN None ELSE StrfLongDate(d)

\* time_str of _safe_fields; the rows of the driver carry a datetime, never a str
KioskTime(dt) ==
    IF dt = NoDate THEN "" ELSE LStrip(StrfTime12(dt), {"0"})

\* Mutation of _safe_fields: the projection also copies the mobile number.
SafeFieldsWithPhone(apt, last_visit) ==
    [pat_num |-> apt.PatNum, PatFName |-> apt.PatFName, PatLName |-> apt.PatLName,
     time |-> KioskTime(apt.AptDateTime), provider |-> _provider_name(apt),
     room |-> OrEmpty(apt.OperatoryName),
     procedure |-> _simplify_proc(apt.ProcDescript), last_visit |-> last_visit,
     phone |-> apt.WirelessPhone]

\* Mutation of _safe_fields: the projection drops the patient number.
SafeFieldsNoPatNum(apt, last_visit) ==
    [PatFName |-> apt.PatFName, PatLName |-> apt.PatLName,
     time |-> KioskTime(apt.AptDateTime), provider |-> _provider_name(apt),
     room |-> OrEmpty(apt.OperatoryName),
     procedure |-> _simplify_proc(apt.ProcDescript), last_visit |-> last_visit]

_safe_fields(apt, last_visit) ==
    [pat_num |-> apt.PatNum,
     PatFName |-> apt.PatFName,
     PatLName |-> apt.PatLName,
     time |-> KioskTime(apt.AptDateTime),
     provider |-> _provider_name(apt),
     room |-> OrEmpty(apt.OperatoryName),
     procedure |-> _simplify_proc(apt.ProcDescript),
     last_visit |-> last_visit]

\* re.sub(r"\D", "", s or "")
_only_digits(s) == KeepChars(OrEmpty(s), DigitSet)

(***************************************************************************)
(* The practice database: the tables the queries of db.py read.  The       *)
(* patient, provider and operatory tables are fixed; the appointment table *)
(* is one of Databases, chosen when the system starts.                     *)
(***************************************************************************)
Today == MkDate(2025, 3, 14)

MkDateTime(y, m, d, h, mi) ==
    [year |-> y, month |-> m, day |-> d, hour |-> h, minute |-> mi]

PatientTable ==
    [n \in {101, 102, 103, 104, 105} |->
        CASE n = 101 -> [FName |-> "Anna", LName |-> "Smith",
                         HmPhone |-> "", WirelessPhone |-> "(555) 555-1234",
                         Birthdate |-> MkDate(1985, 3, 14),
                         Email |-> "anna@example.com"]
          [] n = 102 -> [FName |-> "Bob", LName |-> "Smithson",
                         HmPhone |-> "555-555-9999", WirelessPhone |-> "",
                         Birthdate |-> MkDate(1, 1, 1),
                         Email |-> ""]
          [] n = 103 -> [FName |-> "Cara", LName |-> "Blacksmith",
                         HmPhone |-> "555.1234", WirelessPhone |-> None,
                         Birthdate |-> MkDate(1985, 3, 14),
                         Email |-> "cara@example.com"]
          [] n = 104 -> [FName |-> "Dee", LName |-> "SMITH",
                         HmPhone |-> "", WirelessPhone |-> "1-555-555-1234",
                         Birthdate |-> MkDate(1899, 12, 31),
                         Email |-> ""]
          [] n = 105 -> [FName |-> "Eve", LName |-> None,
                         HmPhone |-> None, WirelessPhone |-> "",
                         Birthdate |-> NoDate,
                         Email |-> None]]

ProviderTable ==
    [n \in {1, 2, 3} |->
        CASE n = 1 -> [FName |-> "Jane", LName |-> "Miller", Abbr |-> "DrM"]
          [] n = 2 -> [FName |-> "Bright", LName |-> "Dental Group", Abbr |-> " DrG"]
          [] n = 3 -> [FName |-> "", LName |-> "Carey", Abbr |-> "Hyg1"]]

OperatoryTable ==
    [n \in {1, 2} |-> [OpName |-> IF n = 1 THEN "Op 1" ELSE "Op 2"]]

\* one row of the appointment table
Apt(num, dt, pat, prov, status, proc, isnew, note, op) ==
    [AptNum |-> num, AptDateTime |-> dt, PatNum |-> pat, ProvNum |-> prov,
     AptStatus |-> status, ProcDescript |-> proc, IsNewPatient |-> isnew,
     Note |-> note, ClinicNum |-> 0, Op |-> op]

\* scheduled today
TodayApts ==
    { Apt(1, MkDateTime(2025, 3, 14, 9, 5), 101, 1, 1, "#3-PFMSeat, Ex", 0, "anxious", 1),
      Apt(2, MkDateTime(2025, 3, 14, 9, 5), 102, 2, 1, "", 1, "", 2),
      Apt(3, MkDateTime(2025, 3, 14, 13, 30), 103, 3, 1, "Pro, BWX", 0, "call first", 0),
      Apt(4, MkDateTime(2025, 3, 14, 15, 0), 101, 1, 1, "RCT", 0, "", 1),
      Apt(5, MkDateTime(2025, 3, 14, 0, 10), 104, 1, 1, "zzz", 0, "", 2) }

\* scheduled on another day, broken (5) and completed (2) appointments
OtherApts ==
    { Apt(6, MkDateTime(2025, 3, 15, 10, 0), 102, 2, 1, "Ex", 0, "", 1),
      Apt(7, MkDateTime(2025, 1, 7, 10, 0), 102, 2, 5, "Pro", 0, "", 1),
      Apt(8, MkDateTime(2025, 2, 4, 10, 0), 102, 2, 5, "Pro", 0, "", 1),
      Apt(9, MkDateTime(2025, 2, 11, 11, 0), 103, 3, 5, "Pro", 0, "", 2),
      Apt(10, MkDateTime(2024, 11, 5, 9, 0), 101, 1, 2, "Ex", 0, "", 1),
      Apt(11, MkDateTime(2025, 1, 20, 16, 45), 101, 1, 2, "CompF", 0, "", 1),
      Apt(12, MkDateTime(2025, 3, 14, 8, 0), 103, 3, 2, "BWX", 0, "", 2) }

Databases ==
    { TodayApts \cup OtherApts,
      OtherApts,
      {a \in TodayApts : a.AptNum \in {2, 5}} \cup OtherApts }

DocumentTable ==
    { [DocNum |-> 1, PatNum |-> 101, DocCategory |-> 182, FileName |-> "SmithAnna101.jpg"],
      [DocNum |-> 2, PatNum |-> 101, DocCategory |-> 190, FileName |-> "SmithAnna101b.PNG"],
      [DocNum |-> 3, PatNum |-> 102, DocCategory |-> 7, FileName |-> "SmithsonBob102.jpg"] }

\* a < b for two datetimes
DtLess(a, b) ==
    LET ka == <<a.year, a.month, a.day, a.hour, a.minute>>
        kb == <<b.year, b.month, b.day, b.hour, b.minute>>
    IN  \E i \in 1..5 : ka[i] < kb[i] /\ \A j \in 1..(i - 1) : ka[j] = kb[j]

\* ORDER BY a.AptDateTime ASC, a.Op ASC
RowBefore(a, b) ==
    \/ DtLess(a.AptDateTime, b.AptDateTime)
    \/ a.AptDateTime = b.AptDateTime /\ a.Op < b.Op

RECURSIVE OrderRows(_)
OrderRows(S) ==
    IF S = {} THEN <<>>
    ELSE LET first == CHOOSE a \in S : \A b \in S \ {a} : RowBefore(a, b)
         IN  <<first>> \o OrderRows(S \ {first})

\* the row of the select list: appointment LEFT JOIN patient, provider, operatory
JoinedRow(a) ==
    LET p == PatientTable[a.PatNum]
        pr == ProviderTable[a.ProvNum]
    IN  [AptNum |-> a.AptNum, AptDateTime |-> a.AptDateTime, PatNum |-> a.PatNum,
         ProvNum |-> a.ProvNum, AptStatus |-> a.AptStatus,
         ProcDescript |-> a.ProcDescript, IsNewPatient |-> a.IsNewPatient,
         Note |-> a.Note, ClinicNum |-> a.ClinicNum, OperatoryNum |-> a.Op,
         PatFName |-> p.FName, PatLName |-> p.LName, HmPhone |-> p.HmPhone,
         WirelessPhone |-> p.WirelessPhone, Birthdate |-> p.Birthdate,
         Email |-> p.Email, ProvFName |-> pr.FName, ProvLName |-> pr.LName,
         ProvAbbr |-> pr.Abbr,
         OperatoryName |-> IF a.Op \in DOMAIN OperatoryTable
                           THEN OperatoryTable[a.Op].OpName ELSE None]

\* _APPOINTMENTS_FOR_DATE_QUERY
_fetch_appointments(table, target_date) ==
    LET rows == {a \in table : DateOf(a.AptDateTime) = target_date /\ a.AptStatus = 1}
        ordered == OrderRows(rows)
    IN  [i \in 1..Len(ordered) |-> JoinedRow(ordered[i])]

\* patient_nums = [apt["PatNum"] for apt in appointments], as a set
PatNumsOf(rows) == {rows[i].PatNum : i \in 1..Len(rows)}

\* _BROKEN_HISTORY_QUERY: one row per patient that has a broken appointment
_fetch_broken_history(table, patient_nums) ==
    LET broken(p) == {a \in table : a.AptStatus = 5 /\ a.PatNum = p}
    IN  [p \in {n \in patient_nums : broken(n) # {}} |-> Cardinality(broken(p))]

\* the query of get_last_visits: MAX(AptDateTime) of the completed visits before today
LastVisitsQuery(table, patient_nums) ==
    LET done(p) == {a \in table : /\ a.PatNum = p /\ a.AptStatus = 2
                                  /\ DtLess(a.AptDateTime,
                                            MkDateTime(Today.year, Today.month, Today.day, 0, 0))}
    IN  [p \in {n \in patient_nums : done(n) # {}} |->
            (CHOOSE a \in done(p) :
                \A b \in done(p) \ {a} : DtLess(b.AptDateTime, a.AptDateTime)).AptDateTime]

\* the query of get_patient_photo_file: row[0] if row else None
PhotoQuery(pat_num) ==
    LET docs == {d \in DocumentTable : d.PatNum = pat_num /\ d.DocCategory \in {182, 190}}
    IN  IF docs = {} THEN None
        ELSE (CHOOSE d \in docs : \A e \in docs : e.DocNum <= d.DocNum).FileName

\* the query of month_summary: {str(day): count}
MonthQuery(table, year, month) ==
    LET rows == {a \in table : /\ a.AptDateTime.year = year
                               /\ a.AptDateTime.month = month
                               /\ a.AptStatus = 1}
        days == {IsoFormat(DateOf(a.AptDateTime)) : a \in rows}
    IN  [d \in days |->
            Cardinality({a \in rows : IsoFormat(DateOf(a.AptDateTime)) = d})]

\* dict.get(key) of a date-valued dict
DateGet(dict, key) == IF key \in DOMAIN dict THEN dict[key] ELSE NoDate

(***************************************************************************)
(* briefing.py, _format_data_for_prompt(): the plain text handed to the    *)
(* narration step.  today is what date.today() returns during the call;    *)
(* key_order is the insertion order of data["broken_history"], the row     *)
(* order of the broken-history query.  The emoji of the flag texts are     *)
(* written as the ASCII tags [new], [!] and [cake].                        *)
(***************************************************************************)
_INVALID_BIRTHDATE_YEAR == 1900

\* an f-string field: None is formatted as "None"
FStr(x) == IF x = None THEN "None" ELSE x

\* x or default, for a string-valued x
OrElse(x, default) == IF x = None \/ x = "" THEN default ELSE x

\* dict.get(key, default)
DictGet(dict, key, default) == IF key \in DOMAIN dict THEN dict[key] ELSE default

_phone_for_patient(apt) ==
    OrElse(apt.WirelessPhone, OrElse(apt.HmPhone, "no phone on file"))

\* Mutation of _is_valid_birthdate: every birthdate on file counts as real.
BirthdateOnFile(bd) == bd # NoDate

_is_valid_birthdate(bd) ==
    IF bd = NoDate THEN FALSE ELSE bd.year >= _INVALID_BIRTHDATE_YEAR

DayNames ==
    <<"Monday", "Tuesday", "Wednesday", "Thursday", "Friday", "Saturday", "Sunday">>

\* date.toordinal(): 0001-01-01 is day 1
RECURSIVE DaysBeforeMonth(_, _)
DaysBeforeMonth(y, m) ==
    IF m = 1 THEN 0 ELSE DaysBeforeMonth(y, m - 1) + DaysInMonth(y, m - 1)

ToOrdinal(d) ==
    LET y == d.year - 1
    IN  y * 365 + (y \div 4) - (y \div 100) + (y \div 400)
        + DaysBeforeMonth(d.year, d.month) + d.day

\* date.weekday(): Monday is 0
Weekday(d) == (ToOrdinal(d) + 6) % 7

\* d.strftime("%A, %B %d, %Y")
StrfWeekdayDate(d) == DayNames[Weekday(d) + 1] \o ", " \o StrfLongDate(d)

\* dt.strftime("%I:%M %p").lstrip("0")
PromptTime(dt) == LStrip(StrfTime12(dt), {"0"})

\* f"{apt.get('PatFName', '')} {apt.get('PatLName', '')}"
FullName(apt) == FStr(apt.PatFName) \o " " \o FStr(apt.PatLName)

\* Mutation of HighMissedCount: one broken appointment is enough.
AnyMissedCount(missed) == missed >= 1

\* "if missed >= 2"
HighMissedCount(missed) == missed >= 2

\* the flags list of one appointment
AppointmentFlags(apt, broken_history, today) ==
    LET missed == DictGet(broken_history, apt.PatNum, 0)
        bd == apt.Birthdate
    IN  (IF apt.IsNewPatient # 0 THEN <<"[new] NEW PATIENT">> ELSE <<>>)
        \o (IF HighMissedCount(missed)
            THEN <<"[!] " \o NatStr(missed) \o " broken appointments on record">>
            ELSE <<>>)
        \o (IF _is_valid_birthdate(bd) /\ bd.month = today.month /\ bd.day = today.day
            THEN <<"[cake] BIRTHDAY TODAY">>
            ELSE <<>>)

\* the lines of the appointment numbered idx
AppointmentLines(idx, apt, broken_history, today) ==
    LET prov_name == FStr(apt.ProvFName) \o " " \o FStr(apt.ProvLName)
        prov_abbr == OrElse(apt.ProvAbbr, Strip(prov_name))
        prov_full == Strip("Dr. " \o prov_name \o " (" \o prov_abbr \o ")")
        room == OrElse(apt.OperatoryName, "Op " \o NatStr(apt.OperatoryNum))
        flags == AppointmentFlags(apt, broken_history, today)
    IN  << NatStr(idx) \o ". " \o PromptTime(apt.AptDateTime) \o " | " \o prov_full
               \o " | " \o room,
           "   Patient  : " \o Strip(FullName(apt)),
           "   Procedure: " \o OrElse(apt.ProcDescript, "Not specified"),
           "   Phone    : " \o _phone_for_patient(apt) >>
        \o (IF Len(flags) > 0 THEN <<"   Flags    : " \o Join(flags, " | ")>> ELSE <<>>)
        \o <<"">>

RECURSIVE AppointmentList(_, _, _, _)
AppointmentList(idx, appointments, broken_history, today) ==
    IF idx > Len(appointments) THEN <<>>
    ELSE AppointmentLines(idx, appointments[idx], broken_history, today)
         \o AppointmentList(idx + 1, appointments, broken_history, today)

\* age = today.year - bd.year - ((today.month, today.day) < (bd.month, bd.day))
Age(bd, today) ==
    today.year - bd.year
    - (IF \/ today.month < bd.month
          \/ today.month = bd.month /\ today.day < bd.day
       THEN 1 ELSE 0)

\* str(n) of an int
IntStr(n) == IF n < 0 THEN "-" \o NatStr(0 - n) ELSE NatStr(n)

BirthdaySummary(appointments, today) ==
    LET IsBirthday(apt) ==
            /\ _is_valid_birthdate(apt.Birthdate)
            /\ apt.Birthdate.month = today.month /\ apt.Birthdate.day = today.day
        birthday_patients == SelectSeq(appointments, IsBirthday)
    IN  IF Len(birthday_patients) = 0 THEN <<>>
        ELSE <<"BIRTHDAY PATIENTS TODAY:">>
             \o [i \in 1..Len(birthday_patients) |->
                    "  - " \o FullName(birthday_patients[i]) \o " (turning "
                    \o IntStr(Age(birthday_patients[i].Birthdate, today)) \o ")"]
             \o <<"">>

\* sorted(high_risk, key=lambda x: -x[1]): a stable sort, ties keep their order
RECURSIVE SortByCountDesc(_)
SortByCountDesc(items) ==
    IF Len(items) = 0 THEN <<>>
    ELSE LET k == CHOOSE i \in 1..Len(items) :
                    /\ \A j \in 1..Len(items) : items[j][2] <= items[i][2]
                    /\ \A j \in 1..(i - 1) : items[j][2] < items[i][2]
         IN  <<items[k]>>
             \o SortByCountDesc(SubSeq(items, 1, k - 1) \o SubSeq(items, k + 1, Len(items)))

\* pat_name_map.get(pat_num, f"PatNum {pat_num}"): the last appointment of the patient
PatientLabel(appointments, pat_num) ==
    IF \E i \in 1..Len(appointments) : appointments[i].PatNum = pat_num
    THEN LET last == CHOOSE i \in 1..Len(appointments) :
                        /\ appointments[i].PatNum = pat_num
                        /\ \A j \in (i + 1)..Len(appointments) :
                              appointments[j].PatNum # pat_num
         IN  Strip(FullName(appointments[last]))
    ELSE "PatNum " \o NatStr(pat_num)

BrokenSummary(appointments, broken_history, key_order) ==
    LET items == [i \in 1..Len(key_order) |-> <<key_order[i], broken_history[key_order[i]]>>]
        high_risk == SortByCountDesc(SelectSeq(items, LAMBDA it : it[2] >= 2))
    IN  IF Len(high_risk) = 0 THEN <<>>
        ELSE <<"PATIENTS WITH BROKEN APPOINTMENT HISTORY (2+ missed):">>
             \o [i \in 1..Len(high_risk) |->
                    "  - " \o PatientLabel(appointments, high_risk[i][1]) \o ": "
                    \o NatStr(high_risk[i][2]) \o " broken/missed appointments"]
             \o <<"">>

NewPatientSummary(appointments) ==
    LET new_patient_apts == SelectSeq(appointments, LAMBDA apt : apt.IsNewPatient # 0)
    IN  IF Len(new_patient_apts) = 0 THEN <<>>
        ELSE <<"NEW PATIENTS TODAY (first visit -- IsNewPatient flag):">>
             \o [i \in 1..Len(new_patient_apts) |->
                    "  - " \o Strip(FullName(new_patient_apts[i])) \o " at "
                    \o PromptTime(new_patient_apts[i].AptDateTime)]
             \o <<"">>

PromptHeader(appointments, today) ==
    << "DATE: " \o StrfWeekdayDate(today),
       "TOTAL SCHEDULED APPOINTMENTS: " \o NatStr(Len(appointments)),
       "" >>

SummaryLines(data, today, key_order) ==
    BirthdaySummary(data.appointments, today)
    \o BrokenSummary(data.appointments, data.broken_history, key_order)
    \o NewPatientSummary(data.appointments)

\* Mutation of _format_data_for_prompt: no early return for an empty schedule.
FormatWithoutEarlyReturn(data, today, key_order) ==
    Join(PromptHeader(data.appointments, today)
         \o (IF Len(data.appointments) = 0
             THEN <<"No appointments are scheduled for today.">>
             ELSE <<"APPOINTMENTS (chronological):", "">>
                  \o AppointmentList(1, data.appointments, data.broken_history, today))
         \o SummaryLines(data, today, key_order),
         "\n")

_format_data_for_prompt(data, today, key_order) ==
    Join(PromptHeader(data.appointments, today)
         \o (IF Len(data.appointments) = 0
             THEN <<"No appointments are scheduled for today.">>
             ELSE <<"APPOINTMENTS (chronological):", "">>
                  \o AppointmentList(1, data.appointments, data.broken_history, today)
                  \o SummaryLines(data, today, key_order)),
         "\n")

(***************************************************************************)
(* routes/kiosk.py, search(): the three match modes.                       *)
(***************************************************************************)
MinPhoneDigits == 7

\* Mutation of LastNameMatch: the name is searched for q instead of starting with it.
LastNameContains(a, q_lower) == Contains(Lower(a.PatLName), q_lower)

\* a.get("PatLName", "").lower().startswith(q_lower)
LastNameMatch(a, q_lower) == StartsWith(Lower(a.PatLName), q_lower)

\* dob.split("/") and date(int(parts[2]), int(parts[0]), int(parts[1]));
\* ok = FALSE is the ValueError answered with dob_invalid
ParseDob(dob) ==
    LET parts == Split(dob, "/") IN
    IF Len(parts) # 3 THEN [ok |-> FALSE, date |-> NoDate]
    ELSE LET y == IntParse(parts[3])
             m == IntParse(parts[1])
             d == IntParse(parts[2])
         IN  IF y.ok /\ m.ok /\ d.ok /\ ValidDate(y.value, m.value, d.value)
             THEN [ok |-> TRUE, date |-> MkDate(y.value, m.value, d.value)]
             ELSE [ok |-> FALSE, date |-> NoDate]

\* Mutation of DobMatch: the stored birthdate is compared without the year check.
DobMatchAnyYear(a, dob_date) ==
    LET bd == a.Birthdate IN
    IF bd = NoDate THEN FALSE ELSE bd = dob_date

\* the body of the loop over apts in the dob branch
DobMatch(a, dob_date) ==
    LET bd == a.Birthdate IN
    IF bd = NoDate THEN FALSE
    ELSE IF bd.year < 1900 THEN FALSE
    ELSE bd = dob_date

\* Mutation of PhoneMatch: only the mobile number is compared.
PhoneMatchWirelessOnly(a, digits) == EndsWith(_only_digits(a.WirelessPhone), digits)

\* the condition of the list comprehension in the phone branch
PhoneMatch(a, digits) ==
    \/ EndsWith(_only_digits(a.WirelessPhone), digits)
    \/ EndsWith(_only_digits(a.HmPhone), digits)

\* Mutation of SearchFilter: the dob branch is tested before the q branch.
SearchFilterDobFirst(q, dob, phone, apts) ==
    IF dob # ""
    THEN LET parsed == ParseDob(dob)
             Test(a) == DobMatch(a, parsed.date)
         IN  IF ~parsed.ok THEN [error |-> "dob_invalid", matches |-> <<>>]
             ELSE [error |-> "none", matches |-> SelectSeq(apts, Test)]
    ELSE IF q # ""
    THEN LET q_lower == Lower(q)
             Test(a) == LastNameMatch(a, q_lower)
         IN  [error |-> "none", matches |-> SelectSeq(apts, Test)]
    ELSE LET digits == _only_digits(phone)
             Test(a) == PhoneMatch(a, digits)
         IN  IF Len(digits) < MinPhoneDigits
             THEN [error |-> "phone_short", matches |-> <<>>]
             ELSE [error |-> "none", matches |-> SelectSeq(apts, Test)]

\* the if q / elif dob / else chain: the error code, or the matched rows
SearchFilter(q, dob, phone, apts) ==
    IF q # ""
    THEN LET q_lower == Lower(q)
             Test(a) == LastNameMatch(a, q_lower)
         IN  [error |-> "none", matches |-> SelectSeq(apts, Test)]
    ELSE IF dob # ""
    THEN LET parsed == ParseDob(dob)
             Test(a) == DobMatch(a, parsed.date)
         IN  IF ~parsed.ok THEN [error |-> "dob_invalid", matches |-> <<>>]
             ELSE [error |-> "none", matches |-> SelectSeq(apts, Test)]
    ELSE LET digits == _only_digits(phone)
             Test(a) == PhoneMatch(a, digits)
         IN  IF Len(digits) < MinPhoneDigits
             THEN [error |-> "phone_short", matches |-> <<>>]
             ELSE [error |-> "none", matches |-> SelectSeq(apts, Test)]

\* Mutation of SearchResponse: a failed last-visit lookup fails the request.
SearchResponseHardFail(ms, exc, visits) ==
    IF exc.type = "RuntimeError"
    THEN [status |-> 500, body |-> [error |-> "db_unavailable"]]
    ELSE [status |-> 200,
          body |-> [results |->
            [i \in 1..Len(ms) |->
                _safe_fields(ms[i], _fmt_date(DateGet(visits, ms[i].PatNum)))]]]

\* the tail of search(): the last-visit lookup's outcome becomes the response
SearchResponse(ms, exc, visits) ==
    LET last_visits == IF exc.type = "RuntimeError" THEN <<>> ELSE visits
    IN  [status |-> 200,
         body |-> [results |->
            [i \in 1..Len(ms) |->
                _safe_fields(ms[i], _fmt_date(DateGet(last_visits, ms[i].PatNum)))]]]

(***************************************************************************)
(* Inputs of the HTTP handlers.  None is an absent query parameter.        *)
(***************************************************************************)
QInputs == {None, "  ", "Smi", " smith ", "SMITHS", "mit"}

DobInputs ==
    {None, " ", "03/14/1985", " 3/ 14/1985", "01/01/0001", "12/31/1899",
     "02/30/1985", "1985-03-14", "03/14/85x"}

PhoneInputs == {None, "5551234", "555-12 34", "(555) 555-9999", "555123", "1234567"}

ApiDateInputs ==
    {None, "", "2025-03-14", "2025-03-15", "2025-02-30", "03/14/2025", "20250315"}

MonthYearInputs == {None, "2025", "x"}

MonthMonthInputs == {None, "3", "12"}

PhotoInputs == {101, 102, 999}

(***************************************************************************)
(* Inputs of main.py: the --date argument (None when not given), the       *)
(* required environment variables that are set and non-empty, the wall     *)
(* clock at the time of the save, and what the narration stream delivers.  *)
(***************************************************************************)
CliDateInputs == {None, "2025-03-15", "2025-3-15", "tomorrow"}

REQUIRED_ENV_VARS_DB == <<"DB_HOST", "DB_USER", "DB_NAME">>

REQUIRED_ENV_VARS_AI == <<"ANTHROPIC_API_KEY">>

Environments ==
    { {"DB_HOST", "DB_USER", "DB_NAME", "ANTHROPIC_API_KEY"},
      {"DB_HOST", "DB_USER", "DB_NAME"},
      {"DB_USER", "DB_NAME", "ANTHROPIC_API_KEY"} }

ClockTimes == {"08:00:00", "08:00:07"}

MaxEvents == 2

StreamEvents ==
    { [type |-> "text_delta", text |-> "Good morning. "],
      [type |-> "text_delta", text |-> "Quiet day."],
      [type |-> "thinking_delta", text |-> "hmm"] }

EventSeqs == UNION {[1..n -> StreamEvents] : n \in 0..MaxEvents}

NarrationErrors ==
    {"AuthenticationError", "RateLimitError", "APIConnectionError", "APIStatusError"}

\* the dates main.py can be run for, and the file _save_briefing names for each
TargetDates ==
    {Today} \cup {FromIsoFormat(d).date :
                      d \in {x \in CliDateInputs \ {None} : FromIsoFormat(x).ok}}

BriefingFileName(target_date) == IsoFormat(target_date) \o ".txt"

BriefingFileNames == {BriefingFileName(d) : d \in TargetDates}

NoFile == "<no file>"

(***************************************************************************)
(* Inputs of _format_data_for_prompt: the date of the call, the schedule   *)
(* and the broken history with the insertion order of its keys.            *)
(***************************************************************************)
PromptTodays ==
    {Today, MkDate(2025, 1, 1), MkDate(2025, 12, 31), MkDate(2024, 2, 29)}

\* one provider with appointments 5 and 45 minutes apart, a second provider
\* in between, a patient without a birthdate on file and a room without a name
GapApts ==
    { Apt(21, MkDateTime(2025, 3, 14, 9, 0), 101, 1, 1, "Ex", 0, "", 1),
      Apt(22, MkDateTime(2025, 3, 14, 9, 5), 102, 1, 1, "Pro", 0, "", 1),
      Apt(23, MkDateTime(2025, 3, 14, 9, 20), 104, 2, 1, "", 0, "", 2),
      Apt(24, MkDateTime(2025, 3, 14, 9, 50), 105, 1, 1, "CompF", 1, "", 0) }

PromptSchedules ==
    { _fetch_appointments(table, Today) :
        table \in {OtherApts, TodayApts, GapApts, {a \in GapApts : a.AptNum = 24}} }

PromptHistories ==
    { <<>>,
      [p \in {101} |-> 1],
      [p \in {101, 102, 103} |-> IF p = 101 THEN 2 ELSE IF p = 102 THEN 3 ELSE 1],
      [p \in {102, 104, 999} |-> IF p = 999 THEN 5 ELSE 2],
      [p \in {104, 105} |-> IF p = 104 THEN 0 ELSE 2] }

\* the orders in which the keys of a dict can have been inserted
KeyOrders(dict) ==
    LET keys == DOMAIN dict
    IN  {order \in [1..Cardinality(keys) -> keys] :
            \A i, j \in 1..Cardinality(keys) : order[i] = order[j] => i = j}

(***************************************************************************)
(* routes/kiosk.py, patient_photo(): the path and the mime type derived    *)
(* from the file name.                                                     *)
(***************************************************************************)
IsWordChar(c) ==
    IndexIn(UpperChars, c) > 0 \/ IndexIn(LowerChars, c) > 0 \/ IsDigit(c) \/ c = "_"

LastIndex(s, sep) ==
    IF \E i \in 1..Len(s) : CharAt(s, i) = sep
    THEN CHOOSE i \in 1..Len(s) :
            CharAt(s, i) = sep /\ \A j \in (i + 1)..Len(s) : CharAt(s, j) # sep
    ELSE 0

\* re.sub(r"\.\w+$", "", filename)
StripExtension(filename) ==
    LET i == LastIndex(filename, ".") IN
    IF /\ i > 0 /\ i < Len(filename)
       /\ \A j \in (i + 1)..Len(filename) : IsWordChar(CharAt(filename, j))
    THEN SubSeq(filename, 1, i - 1) ELSE filename

\* folder, letter and mime type of patient_photo
PhotoPlace(filename) ==
    LET folder == RStrip(StripExtension(filename), DigitSet)
        i == LastIndex(filename, ".")
        ext == Lower(SubSeq(filename, i + 1, Len(filename)))
    IN  [folder |-> folder,
         letter |-> IF folder # "" THEN Upper(CharAt(folder, 1)) ELSE "_",
         mime |-> IF ext = "png" THEN "image/png"
                  ELSE IF ext = "gif" THEN "image/gif" ELSE "image/jpeg"]

(***************************************************************************)
(* State.  One invocation (an HTTP request or a run of main.py) is in      *)
(* progress at a time; pc is its position.  A call of a db.py function or  *)
(* of the month query runs as the steps connect, query, finally, returned. *)
(***************************************************************************)
VARIABLES
    database,     \* the appointment table
    pc,           \* position of the invocation
    handler,      \* "none", "search", "appointments", "month", "photo", "cli"
    args,         \* the invocation's parameters, as the handler holds them
    db_op,        \* the data-access function being called, or "none"
    db_arg,       \* its argument
    db_pc,        \* "none", "connect", "query", "query2", "finally", "returned"
    db_exc,       \* the exception the call raises, NoExc when none
    db_val,       \* the value the call returns
    open_conns,   \* number of MySQL connections currently open
    db_calls,     \* the data-access functions this invocation has connected for
    data,         \* the value get_appointment_data returned to the handler
    matches,      \* search(): the matched rows
    response,     \* the answer of the invocation, NoResponse until it is given
    briefing_text,\* main(): the text generate_briefing returned
    narration_requests, \* the calls of client.messages.stream of this invocation
    files,        \* logs/: the content of each dated briefing file, NoFile if absent
    files_before, \* logs/ as the invocation in progress found it
    requests,     \* the requests the threaded server handles at the same time
    connections,  \* the MySQL connections that are open, by handle
    crontab,      \* the user's crontab: its jobs, in file order
    crontab_before, \* the crontab as the last operation on it found it
    cron_op,      \* the last operation on the crontab, "none" at the start
    log_dir       \* TRUE when the logs directory of the scheduler exists

dbVars == <<db_op, db_arg, db_pc, db_exc, db_val, open_conns, db_calls>>

reqVars == <<pc, handler, args, data, matches, response, briefing_text,
            narration_requests, files, files_before>>

concVars == <<requests, connections>>

cronVars == <<crontab, crontab_before, cron_op, log_dir>>

vars == <<database, pc, handler, args, db_op, db_arg, db_pc, db_exc, db_val,
          open_conns, db_calls, data, matches, response, briefing_text,
          narration_requests, files, files_before, requests, connections,
          crontab, crontab_before, cron_op, log_dir>>

NoExc == [type |-> "none", msg |-> ""]

NoResponse == [status |-> 0]

NoArgs == [none |-> TRUE]

NoData == [none |-> TRUE]

EmptyDict == <<>>

(***************************************************************************)
(* The threaded server: NumRequests requests in progress at once.  Each    *)
(* has the locals of its handler and of the data-access call it is in;     *)
(* conn is the handle _get_connection returned to that call.               *)
(***************************************************************************)
NumRequests == 2

RequestIds == 1..NumRequests

NoCall ==
    [op |-> "none", arg |-> NoArgs, pc |-> "none", query |-> 0, conn |-> 0,
     exc |-> NoExc, val |-> EmptyDict]

IdleRequest ==
    [pc |-> "idle", handler |-> "none", args |-> NoArgs, call |-> NoCall,
     data |-> NoData, matches |-> <<>>, response |-> NoResponse, overlapped |-> FALSE]

Init ==
    /\ database \in Databases
    /\ pc = "idle"
    /\ handler = "none"
    /\ args = NoArgs
    /\ db_op = "none"
    /\ db_arg = NoArgs
    /\ db_pc = "none"
    /\ db_exc = NoExc
    /\ db_val = EmptyDict
    /\ open_conns = 0
    /\ db_calls = <<>>
    /\ data = NoData
    /\ matches = <<>>
    /\ response = NoResponse
    /\ briefing_text = ""
    /\ narration_requests = <<>>
    /\ files = [name \in BriefingFileNames |-> NoFile]
    /\ files_before = files
    /\ requests = [r \in RequestIds |-> IdleRequest]
    /\ connections = <<>>
    /\ crontab = <<>>
    /\ crontab_before = <<>>
    /\ cron_op = "none"
    /\ log_dir = FALSE

(***************************************************************************)
(* db.py: a data-access call, step by step.                                *)
(***************************************************************************)
\* the call of a data-access function: it connects first
CallDb(op, arg) ==
    /\ db_op' = op
    /\ db_arg' = arg
    /\ db_pc' = "connect"
    /\ db_exc' = NoExc
    /\ db_val' = EmptyDict
    /\ db_calls' = Append(db_calls, op)
    /\ UNCHANGED open_conns

\* get_last_visits: "if not patient_nums: return {}" comes before the connection
CallLastVisits(pat_nums) ==
    IF pat_nums = {}
    THEN /\ db_op' = "get_last_visits"
         /\ db_arg' = pat_nums
         /\ db_pc' = "returned"
         /\ db_exc' = NoExc
         /\ db_val' = EmptyDict
         /\ UNCHANGED <<open_conns, db_calls>>
    ELSE CallDb("get_last_visits", pat_nums)

\* what a failed connect raises: _get_connection wraps the driver's Error in a
\* RuntimeError, month_summary connects by itself and lets the Error through
ConnectError(op) ==
    IF op = "month_summary"
    THEN [type |-> "Error", msg |-> "Can't connect to MySQL server"]
    ELSE [type |-> "RuntimeError", msg |-> "Failed to connect to MySQL"]

\* what a failed query raises: "except Error" of the db.py functions raises a
\* RuntimeError, month_summary has no except clause
QueryError(op) ==
    IF op = "month_summary"
    THEN [type |-> "Error", msg |-> "query failed"]
    ELSE [type |-> "RuntimeError", msg |-> "Database query failed"]

\* the first (or only) query of the call, on the current tables
QueryResult(op, arg, table) ==
    CASE op = "get_appointment_data" ->
            [appointments |-> _fetch_appointments(table, arg)]
      [] op = "get_last_visits" -> LastVisitsQuery(table, arg)
      [] op = "get_patient_photo_file" -> PhotoQuery(arg)
      [] op = "month_summary" -> MonthQuery(table, arg.year, arg.month)

\* Mutation of ConnsAfterFinally: the connection is closed on the success path only.
ConnsAfterCloseOnSuccess(n, exc) == IF exc.type = "none" THEN n - 1 ELSE n

\* "finally: conn.close()": the number of open connections after it
ConnsAfterFinally(n, exc) == n - 1

DbConnect ==
    /\ db_pc = "connect"
    /\ \/ /\ open_conns' = open_conns + 1
          /\ db_pc' = "query"
          /\ UNCHANGED db_exc
       \/ /\ db_exc' = ConnectError(db_op)
          /\ db_pc' = "returned"
          /\ UNCHANGED open_conns
    /\ UNCHANGED <<database, concVars, cronVars, reqVars, db_op, db_arg, db_val, db_calls>>

DbQuery ==
    /\ db_pc = "query"
    /\ \/ /\ db_val' = QueryResult(db_op, db_arg, database)
          /\ db_pc' = IF db_op = "get_appointment_data" THEN "query2" ELSE "finally"
          /\ UNCHANGED db_exc
       \/ /\ db_exc' = QueryError(db_op)
          /\ db_pc' = "finally"
          /\ UNCHANGED db_val
    /\ UNCHANGED <<database, concVars, cronVars, reqVars, db_op, db_arg, open_conns, db_calls>>

\* get_appointment_data: _fetch_broken_history, which queries only for a
\* non-empty patient list
DbQueryBroken ==
    /\ db_pc = "query2"
    /\ LET patient_nums == PatNumsOf(db_val.appointments) IN
       \/ /\ db_val' = [appointments |-> db_val.appointments,
                        broken_history |-> _fetch_broken_history(database, patient_nums)]
          /\ db_pc' = "finally"
          /\ UNCHANGED db_exc
       \/ /\ patient_nums # {}
          /\ db_exc' = QueryError(db_op)
          /\ db_pc' = "finally"
          /\ UNCHANGED db_val
    /\ UNCHANGED <<database, concVars, cronVars, reqVars, db_op, db_arg, open_conns, db_calls>>

DbFinally ==
    /\ db_pc = "finally"
    /\ open_conns' = ConnsAfterFinally(open_conns, db_exc)
    /\ db_pc' = "returned"
    /\ UNCHANGED <<database, concVars, cronVars, reqVars, db_op, db_arg, db_exc, db_val, db_calls>>

(***************************************************************************)
(* routes/kiosk.py: GET /kiosk/search.                                     *)
(***************************************************************************)
Answer(status, body) ==
    /\ response' = [status |-> status, body |-> body]
    /\ pc' = "done"

SearchStart ==
    /\ pc = "idle"
    /\ \E q0 \in QInputs, dob0 \in DobInputs, phone0 \in PhoneInputs :
        LET q == Strip(OrEmpty(q0))
            dob == Strip(OrEmpty(dob0))
            phone == Strip(OrEmpty(phone0))
        IN  /\ handler' = "search"
            /\ args' = [q |-> q, dob |-> dob, phone |-> phone]
            /\ IF q = "" /\ dob = "" /\ phone = ""
               THEN /\ Answer(400, [error |-> "Provide q, dob, or phone"])
                    /\ UNCHANGED dbVars
               ELSE /\ pc' = "search_fetch"
                    /\ CallDb("get_appointment_data", Today)
                    /\ UNCHANGED response
    /\ UNCHANGED <<database, concVars, cronVars, data, matches, briefing_text,
                   narration_requests, files, files_before>>

\* from the return of get_appointment_data to the call of get_last_visits
SearchFetched ==
    /\ pc = "search_fetch"
    /\ db_pc = "returned"
    /\ IF db_exc.type = "RuntimeError"
       THEN /\ Answer(500, [error |-> "db_unavailable"])
            /\ UNCHANGED <<dbVars, data, matches>>
       ELSE LET apts == db_val.appointments
                found == SearchFilter(args.q, args.dob, args.phone, apts)
            IN  /\ data' = db_val
                /\ IF found.error # "none"
                   THEN /\ Answer(400, [error |-> found.error])
                        /\ UNCHANGED <<dbVars, matches>>
                   ELSE /\ matches' = found.matches
                        /\ pc' = "search_visits"
                        /\ CallLastVisits(PatNumsOf(found.matches))
                        /\ UNCHANGED response
    /\ UNCHANGED <<database, concVars, cronVars, handler, args, briefing_text,
                   narration_requests, files, files_before>>

SearchRespond ==
    /\ pc = "search_visits"
    /\ db_pc = "returned"
    /\ response' = SearchResponse(matches, db_exc, db_val)
    /\ pc' = "done"
    /\ UNCHANGED <<database, concVars, cronVars, handler, args, data, matches, dbVars,
                   briefing_text, narration_requests, files, files_before>>

(***************************************************************************)
(* routes/kiosk.py: GET /kiosk/photo/<pat_num>.  Whether the image file    *)
(* exists under either layout is the file system's answer.                 *)
(***************************************************************************)
PhotoStart ==
    /\ pc = "idle"
    /\ \E pat_num \in PhotoInputs :
        /\ handler' = "photo"
        /\ args' = [pat_num |-> pat_num]
        /\ CallDb("get_patient_photo_file", pat_num)
    /\ pc' = "photo_db"
    /\ UNCHANGED <<database, concVars, cronVars, data, matches, response, briefing_text,
                   narration_requests, files, files_before>>

PhotoRespond ==
    /\ pc = "photo_db"
    /\ db_pc = "returned"
    /\ LET filename == IF db_exc.type = "RuntimeError" THEN None ELSE db_val IN
       IF filename = None \/ filename = ""
       THEN Answer(404, "")
       ELSE \E exists1 \in BOOLEAN, exists2 \in BOOLEAN :
               LET place == PhotoPlace(filename) IN
               IF exists1
               THEN Answer(200, [mimetype |-> place.mime,
                                 path |-> <<place.letter, place.folder, filename>>])
               ELSE IF exists2
               THEN Answer(200, [mimetype |-> place.mime,
                                 path |-> <<"A to Z Folders", place.folder, filename>>])
               ELSE Answer(404, "")
    /\ UNCHANGED <<database, concVars, cronVars, handler, args, data, matches, dbVars,
                   briefing_text, narration_requests, files, files_before>>

(***************************************************************************)
(* server.py: GET /api/appointments and GET /api/month.  The body of a     *)
(* response is the object handed to the JSON encoder.                      *)
(***************************************************************************)
ApiStart ==
    /\ pc = "idle"
    /\ \E date_str \in ApiDateInputs :
        LET parsed == IF date_str = None \/ date_str = ""
                      THEN [ok |-> TRUE, date |-> Today]
                      ELSE FromIsoFormat(date_str)
        IN  /\ handler' = "appointments"
            /\ args' = [date_str |-> date_str, target_date |-> parsed.date]
            /\ IF ~parsed.ok
               THEN /\ Answer(400, [error |-> "Invalid date format, use YYYY-MM-DD"])
                    /\ UNCHANGED dbVars
               ELSE /\ pc' = "api_fetch"
                    /\ CallDb("get_appointment_data", parsed.date)
                    /\ UNCHANGED response
    /\ UNCHANGED <<database, concVars, cronVars, data, matches, briefing_text,
                   narration_requests, files, files_before>>

\* Mutation of ApiRespond: when the broken-history query fails the
\* appointments already fetched are rendered with an empty history.
ApiRespondPartial ==
    /\ pc = "api_fetch"
    /\ db_pc = "returned"
    /\ IF db_exc.type = "RuntimeError" /\ db_val = EmptyDict
       THEN /\ Answer(500, [error |-> db_exc.msg])
            /\ UNCHANGED data
       ELSE /\ data' = db_val
            /\ Answer(200, [date |-> IsoFormat(args.target_date),
                            appointment_count |-> Len(db_val.appointments),
                            appointments |-> db_val.appointments,
                            broken_history |-> IF db_exc.type = "none"
                                               THEN db_val.broken_history ELSE EmptyDict])
    /\ UNCHANGED <<database, concVars, cronVars, handler, args, matches, dbVars, briefing_text,
                   narration_requests, files, files_before>>

ApiRespond ==
    /\ pc = "api_fetch"
    /\ db_pc = "returned"
    /\ IF db_exc.type = "RuntimeError"
       THEN /\ Answer(500, [error |-> db_exc.msg])
            /\ UNCHANGED data
       ELSE /\ data' = db_val
            /\ Answer(200, [date |-> IsoFormat(args.target_date),
                            appointment_count |-> Len(db_val.appointments),
                            appointments |-> db_val.appointments,
                            broken_history |-> db_val.broken_history])
    /\ UNCHANGED <<database, concVars, cronVars, handler, args, matches, dbVars, briefing_text,
                   narration_requests, files, files_before>>

\* int(request.args.get(name, default)); a ValueError is Flask's 500
MonthStart ==
    /\ pc = "idle"
    /\ \E y \in MonthYearInputs, m \in MonthMonthInputs :
        LET year == IF y = None THEN [ok |-> TRUE, value |-> Today.year] ELSE IntParse(y)
            month == IF m = None THEN [ok |-> TRUE, value |-> Today.month] ELSE IntParse(m)
        IN  /\ handler' = "month"
            /\ args' = [year |-> y, month |-> m]
            /\ IF ~year.ok \/ ~month.ok
               THEN /\ Answer(500, "Internal Server Error")
                    /\ UNCHANGED dbVars
               ELSE /\ pc' = "month_db"
                    /\ CallDb("month_summary", [year |-> year.value, month |-> month.value])
                    /\ UNCHANGED response
    /\ UNCHANGED <<database, concVars, cronVars, data, matches, briefing_text,
                   narration_requests, files, files_before>>

MonthRespond ==
    /\ pc = "month_db"
    /\ db_pc = "returned"
    /\ IF db_exc.type # "none"
       THEN Answer(500, "Internal Server Error")
       ELSE Answer(200, db_val)
    /\ UNCHANGED <<database, concVars, cronVars, handler, args, data, matches, dbVars,
                   briefing_text, narration_requests, files, files_before>>

(***************************************************************************)
(* briefing.py, generate_briefing(): the text collected from the stream,   *)
(* and the message of the RuntimeError each transport error becomes.       *)
(***************************************************************************)
\* Mutation of CollectText: the thinking deltas are collected too.
RECURSIVE CollectEveryDelta(_)
CollectEveryDelta(events) ==
    IF Len(events) = 0 THEN ""
    ELSE events[1].text \o CollectEveryDelta(Tail(events))

\* text_chunks after the loop over the stream, joined: the text_delta events only
RECURSIVE CollectText(_)
CollectText(events) ==
    IF Len(events) = 0 THEN ""
    ELSE (IF events[1].type = "text_delta" THEN events[1].text ELSE "")
         \o CollectText(Tail(events))

\* the classes an exception of the narration client is an instance of
ExceptionClasses(kind) ==
    CASE kind = "AuthenticationError" -> {"AuthenticationError", "APIStatusError"}
      [] kind = "RateLimitError" -> {"RateLimitError", "APIStatusError"}
      [] kind = "APIConnectionError" -> {"APIConnectionError"}
      [] kind = "APIStatusError" -> {"APIStatusError"}

\* the except clauses of generate_briefing, in source order
ExceptClauses ==
    << [class |-> "AuthenticationError",
        msg |-> "Invalid ANTHROPIC_API_KEY -- check your .env file."],
       [class |-> "RateLimitError",
        msg |-> "Anthropic rate limit reached. Try again shortly."],
       [class |-> "APIConnectionError", msg |-> "Could not reach Anthropic API"],
       [class |-> "APIStatusError", msg |-> "Anthropic API error"] >>

\* the message of the first clause of the chain that matches the exception
FirstMatch(clauses, kind) ==
    LET k == CHOOSE i \in 1..Len(clauses) :
                /\ clauses[i].class \in ExceptionClasses(kind)
                /\ \A j \in 1..(i - 1) : clauses[j].class \notin ExceptionClasses(kind)
    IN  clauses[k].msg

\* Mutation of NarrationMessage: the clause of the base class APIStatusError comes first.
NarrationMessageStatusFirst(kind) ==
    FirstMatch(<<ExceptClauses[4], ExceptClauses[1], ExceptClauses[2], ExceptClauses[3]>>,
               kind)

NarrationMessage(kind) == FirstMatch(ExceptClauses, kind)

(***************************************************************************)
(* main.py.  The response of a run is its exit status and what it printed; *)
(* the em dash of the file header is written "--".                         *)
(***************************************************************************)
\* Mutation of MissingEnv: the narration key is never required.
MissingEnvDbOnly(env, require_ai) ==
    SelectSeq(REQUIRED_ENV_VARS_DB, LAMBDA v : v \notin env)

\* _validate_env: the required variables that are missing or empty
MissingEnv(env, require_ai) ==
    SelectSeq(REQUIRED_ENV_VARS_DB, LAMBDA v : v \notin env)
    \o (IF require_ai
        THEN SelectSeq(REQUIRED_ENV_VARS_AI, LAMBDA v : v \notin env)
        ELSE <<>>)

\* the header of _save_briefing
BriefingHeader(target_date, now) ==
    "Daily Dental Briefing -- " \o IsoFormat(target_date)
    \o " (generated " \o now \o ")\n"
    \o "============================================================" \o "\n\n"

\* Mutation of WriteText: the file is opened for appending.
AppendText(old, content) == IF old = NoFile THEN content ELSE old \o content

\* dated_file.write_text(header + text): the content of the file afterwards
WriteText(old, content) == content

_save_briefing(fs, text, target_date, now) ==
    [fs EXCEPT ![BriefingFileName(target_date)] =
        WriteText(@, BriefingHeader(target_date, now) \o text)]

Exit(status, printed) ==
    /\ response' = [status |-> status, body |-> printed]
    /\ pc' = "done"

CliStart ==
    /\ pc = "idle"
    /\ \E date_arg \in CliDateInputs, briefing \in BOOLEAN, env \in Environments :
        LET parsed == IF date_arg = None \/ date_arg = ""
                      THEN [ok |-> TRUE, date |-> Today]
                      ELSE FromIsoFormat(date_arg)
            missing == MissingEnv(env, briefing)
        IN  /\ handler' = "cli"
            /\ args' = [date |-> date_arg, briefing |-> briefing, env |-> env,
                        target_date |-> parsed.date]
            /\ IF ~parsed.ok
               THEN /\ Exit(1, <<"ERROR: --date must be YYYY-MM-DD">>)
                    /\ UNCHANGED dbVars
               ELSE IF Len(missing) > 0
               THEN /\ Exit(1, <<"ERROR: Missing environment variable(s): "
                                 \o Join(missing, ", ")>>)
                    /\ UNCHANGED dbVars
               ELSE /\ pc' = "cli_fetch"
                    /\ CallDb("get_appointment_data", parsed.date)
                    /\ UNCHANGED response
    /\ UNCHANGED <<database, concVars, cronVars, data, matches, briefing_text,
                   narration_requests, files, files_before>>

CliFetched ==
    /\ pc = "cli_fetch"
    /\ db_pc = "returned"
    /\ IF db_exc.type = "RuntimeError"
       THEN /\ Exit(1, <<"ERROR fetching appointments: " \o db_exc.msg>>)
            /\ UNCHANGED data
       ELSE /\ data' = db_val
            /\ IF ~args.briefing
               THEN Exit(0, << [date |-> IsoFormat(args.target_date),
                                appointment_count |-> Len(db_val.appointments),
                                appointments |-> db_val.appointments,
                                broken_history |-> db_val.broken_history] >>)
               ELSE /\ pc' = "cli_narrate"
                    /\ response' = [status |-> 0,
                                    body |-> <<"  Appointments: "
                                             \o NatStr(Len(db_val.appointments))>>]
    /\ UNCHANGED <<database, concVars, cronVars, handler, args, matches, briefing_text,
                   narration_requests, files, files_before, dbVars>>

\* generate_briefing: the stream ends normally, or a transport error ends it
\* and the chunks collected so far are dropped with the exception
CliNarrate ==
    /\ pc = "cli_narrate"
    /\ \E key_order \in KeyOrders(data.broken_history) :
        LET user_content == _format_data_for_prompt(data, Today, key_order) IN
        \/ \E events \in EventSeqs :
            /\ narration_requests' =
                  Append(narration_requests,
                         [content |-> user_content, outcome |-> "ok", events |-> events])
            /\ briefing_text' = CollectText(events)
            /\ pc' = "cli_save"
            /\ UNCHANGED response
        \/ \E kind \in NarrationErrors :
            /\ narration_requests' =
                  Append(narration_requests,
                         [content |-> user_content, outcome |-> kind, events |-> <<>>])
            /\ Exit(1, <<"ERROR generating briefing: " \o NarrationMessage(kind)>>)
            /\ UNCHANGED briefing_text
    /\ UNCHANGED <<database, concVars, cronVars, handler, args, data, matches, files,
                   files_before, dbVars>>

CliSave ==
    /\ pc = "cli_save"
    /\ \E now \in ClockTimes :
        files' = _save_briefing(files, briefing_text, args.target_date, now)
    /\ Exit(0, <<"footer", BriefingFileName(args.target_date)>>)
    /\ UNCHANGED <<database, concVars, cronVars, handler, args, data, matches, briefing_text,
                   narration_requests, files_before, dbVars>>

(***************************************************************************)
(* briefing.py: one call of _format_data_for_prompt.  data is its          *)
(* argument, args holds the date date.today() returns and the insertion    *)
(* order of the broken history, the response body is the text returned.    *)
(***************************************************************************)
FormatStart ==
    /\ pc = "idle"
    /\ \E appointments \in PromptSchedules, broken_history \in PromptHistories,
          today \in PromptTodays :
          \E key_order \in KeyOrders(broken_history) :
             /\ data' = [appointments |-> appointments, broken_history |-> broken_history]
             /\ args' = [today |-> today, key_order |-> key_order]
    /\ handler' = "format"
    /\ pc' = "format"
    /\ UNCHANGED <<database, concVars, cronVars, dbVars, matches, response, briefing_text,
                   narration_requests, files, files_before>>

FormatReturn ==
    /\ pc = "format"
    /\ Answer(0, _format_data_for_prompt(data, args.today, args.key_order))
    /\ UNCHANGED <<database, concVars, cronVars, dbVars, handler, args, data, matches,
                   briefing_text, narration_requests, files, files_before>>

(***************************************************************************)
(* routes/kiosk.py: calls of _simplify_proc, which _safe_fields applies to  *)
(* the ProcDescript of a row.  args holds the description, the response     *)
(* body is the text returned.                                               *)
(***************************************************************************)
ProcKeys == {_PROC_MAP[i][1] : i \in 1..Len(_PROC_MAP)}

\* descriptions as Open Dental writes them: codes, with a tooth number, in
\* either case, several in one description, unknown codes, and empty parts
ProcInputs ==
    {None, "", " ", ",", "#", "-", "zzz", "zzz, qqq", "Ex-zzz", "a-b-Ex", "  #Pro  ",
     "##Ex", "#3-PFMSeat, Ex", "Pro, BWX, Pro", "Ex, zzz, Ex", "CompF, CompA, Comp",
     "SRP,SRPMaxSext", "#14-RCT, #14-Core, #14-PFMPrep", "BWX, Pro, Ex, BWX", "Ven,",
     ", Bl", "#5-Pre-fab, #5-Core"}
    \cup ProcKeys
    \cup {Lower(k) : k \in ProcKeys}
    \cup {"#3-" \o k : k \in ProcKeys}

SimplifyStart ==
    /\ pc = "idle"
    /\ \E raw \in ProcInputs : args' = [raw |-> raw]
    /\ handler' = "simplify"
    /\ pc' = "simplify"
    /\ UNCHANGED <<database, concVars, cronVars, dbVars, data, matches, response, briefing_text,
                   narration_requests, files, files_before>>

SimplifyReturn ==
    /\ pc = "simplify"
    /\ Answer(0, _simplify_proc(args.raw))
    /\ UNCHANGED <<database, concVars, cronVars, dbVars, handler, args, data, matches,
                   briefing_text, narration_requests, files, files_before>>

(***************************************************************************)
(* scheduler.py: the daily cron job.  The crontab is the user's own: jobs   *)
(* get into it by other means too (crontab -e).  CronTab(user=True) reads   *)
(* it, remove_all and new change the copy read, write() replaces it.        *)
(***************************************************************************)
CRON_COMMENT == "dental-daily-briefing"

\* _get_paths, for an installation in /opt/briefing
ScriptDir == "/opt/briefing"

PythonExec == "/usr/bin/python3"

\* the command of install_cron
BriefingCommand ==
    "cd " \o ScriptDir \o " && " \o PythonExec \o " " \o ScriptDir \o "/main.py >> "
        \o ScriptDir \o "/logs/cron.log 2>&1"

CronJob(command, comment, slices) ==
    [command |-> command, comment |-> comment, slices |-> slices]

\* jobs an edit of the crontab may add: untagged ones, one whose comment only
\* begins with the tag, and jobs that carry the tag
CronJobs ==
    { CronJob("/usr/local/bin/backup.sh", "nightly-backup", "0 2 * * *"),
      CronJob(BriefingCommand, "", "0 8 * * *"),
      CronJob("/opt/old/main.py", "dental-daily-briefing-old", "0 8 * * *"),
      CronJob("/opt/old/main.py", CRON_COMMENT, "0 7 * * *"),
      CronJob(BriefingCommand, CRON_COMMENT, "0 8 * * *") }

MaxJobs == 3

\* Mutation of remove_all: only the first job with the comment is removed.
remove_first(jobs, comment) ==
    LET tagged == {i \in 1..Len(jobs) : jobs[i].comment = comment}
        first == CHOOSE i \in tagged : \A j \in tagged : i <= j
    IN  IF tagged = {} THEN jobs
        ELSE SubSeq(jobs, 1, first - 1) \o SubSeq(jobs, first + 1, Len(jobs))

\* cron.remove_all(comment=...): every job whose comment is the given one
remove_all(jobs, comment) ==
    LET Keep(job) == job.comment # comment
    IN  SelectSeq(jobs, Keep)

\* the crontab is edited by hand
EditCrontab ==
    /\ Len(crontab) < MaxJobs
    /\ \E job \in CronJobs : crontab' = Append(crontab, job)
    /\ crontab_before' = crontab
    /\ cron_op' = "edit"
    /\ UNCHANGED <<database, concVars, dbVars, reqVars, log_dir>>

\* python scheduler.py on Windows: _check_platform exits
UnsupportedPlatform ==
    /\ cron_op' = "unsupported"
    /\ crontab_before' = crontab
    /\ UNCHANGED <<database, concVars, dbVars, reqVars, crontab, log_dir>>

install_cron ==
    /\ log_dir' = TRUE
    /\ crontab_before' = crontab
    /\ LET job == CronJob(BriefingCommand, CRON_COMMENT, "0 8 * * *") IN
       \/ /\ crontab' = Append(remove_all(crontab, CRON_COMMENT), job)
          /\ cron_op' = "install"
       \/ /\ cron_op' = "failed"          \* CronTab(user=True) or cron.write() raises
          /\ UNCHANGED crontab
    /\ UNCHANGED <<database, concVars, dbVars, reqVars>>

remove_cron ==
    /\ crontab_before' = crontab
    /\ \/ /\ crontab' = remove_all(crontab, CRON_COMMENT)
          /\ cron_op' = "remove"
       \/ /\ cron_op' = "failed"
          /\ UNCHANGED crontab
    /\ UNCHANGED <<database, concVars, dbVars, reqVars, log_dir>>

show_status ==
    /\ crontab_before' = crontab
    /\ cron_op' = "status"
    /\ UNCHANGED <<database, concVars, dbVars, reqVars, crontab, log_dir>>

\* the invocation is over; the next one starts from scratch
Finish ==
    /\ pc = "done"
    /\ pc' = "idle"
    /\ handler' = "none"
    /\ args' = NoArgs
    /\ db_op' = "none"
    /\ db_arg' = NoArgs
    /\ db_pc' = "none"
    /\ db_exc' = NoExc
    /\ db_val' = EmptyDict
    /\ db_calls' = <<>>
    /\ data' = NoData
    /\ matches' = <<>>
    /\ response' = NoResponse
    /\ briefing_text' = ""
    /\ narration_requests' = <<>>
    /\ files_before' = files
    /\ UNCHANGED <<database, concVars, cronVars, open_conns, files>>

DbStep == DbConnect \/ DbQuery \/ DbQueryBroken \/ DbFinally

Next ==
    \/ DbStep
    \/ SearchStart \/ SearchFetched \/ SearchRespond
    \/ PhotoStart \/ PhotoRespond
    \/ ApiStart \/ ApiRespond
    \/ MonthStart \/ MonthRespond
    \/ Finish

Spec == Init /\ [][Next]_vars

\* the runs of main.py
NextCli ==
    \/ DbStep
    \/ CliStart \/ CliFetched \/ CliNarrate \/ CliSave
    \/ Finish

SpecCli == Init /\ [][NextCli]_vars

\* the callers of get_appointment_data that render the schedule it returns:
\* the runs of main.py and the requests of /api/appointments
NextFetch ==
    \/ DbStep
    \/ ApiStart \/ ApiRespond
    \/ CliStart \/ CliFetched \/ CliNarrate \/ CliSave
    \/ Finish

SpecFetch == Init /\ [][NextFetch]_vars

(***************************************************************************)
(* The threaded server (app.run): search() and appointments() running for  *)
(* several requests at once.  A step is taken by one request; the code of  *)
(* a handler and of a data-access call is the code modelled above, on the  *)
(* locals of that request.  cursor.execute leaves its result on the        *)
(* connection and cursor.fetchall reads it from there.                     *)
(***************************************************************************)
ConcSearchInputs ==
    { <<None, None, None>>, <<"Smi", None, None>>, <<None, "02/30/1985", None>> }

ConcDateInputs == {None, "2025-03-15", "03/14/2025"}

StartCall(op, arg) ==
    [op |-> op, arg |-> arg, pc |-> "connect", query |-> 1, conn |-> 0,
     exc |-> NoExc, val |-> EmptyDict]

\* get_last_visits: "if not patient_nums: return {}" comes before the connection
StartLastVisits(pat_nums) ==
    IF pat_nums = {}
    THEN [op |-> "get_last_visits", arg |-> pat_nums, pc |-> "returned", query |-> 0,
          conn |-> 0, exc |-> NoExc, val |-> EmptyDict]
    ELSE StartCall("get_last_visits", pat_nums)

\* Mutation of NewConnection: one module-level connection is reused while open.
SharedConnection(conns) ==
    IF DOMAIN conns = {} THEN 1
    ELSE CHOOSE h \in DOMAIN conns : \A g \in DOMAIN conns : h <= g

\* mysql.connector.connect(...): a new connection object, here the first free handle
NewConnection(conns) ==
    CHOOSE h \in 1..(Cardinality(DOMAIN conns) + 1) :
        h \notin DOMAIN conns /\ \A g \in 1..(h - 1) : g \in DOMAIN conns

ConcSearchStart(r) ==
    /\ requests[r].pc = "idle"
    /\ \E in \in ConcSearchInputs :
        LET q == Strip(OrEmpty(in[1]))
            dob == Strip(OrEmpty(in[2]))
            phone == Strip(OrEmpty(in[3]))
            started == [requests[r] EXCEPT !.handler = "search",
                                           !.args = [q |-> q, dob |-> dob, phone |-> phone]]
        IN  requests' = [requests EXCEPT ![r] =
                IF q = "" /\ dob = "" /\ phone = ""
                THEN [started EXCEPT
                        !.pc = "done",
                        !.response = [status |-> 400,
                                      body |-> [error |-> "Provide q, dob, or phone"]]]
                ELSE [started EXCEPT
                        !.pc = "search_fetch",
                        !.call = StartCall("get_appointment_data", Today)]]
    /\ UNCHANGED <<database, cronVars, dbVars, reqVars, connections>>

ConcApiStart(r) ==
    /\ requests[r].pc = "idle"
    /\ \E date_str \in ConcDateInputs :
        LET parsed == IF date_str = None \/ date_str = ""
                      THEN [ok |-> TRUE, date |-> Today]
                      ELSE FromIsoFormat(date_str)
            started == [requests[r] EXCEPT
                          !.handler = "appointments",
                          !.args = [date_str |-> date_str, target_date |-> parsed.date]]
        IN  requests' = [requests EXCEPT ![r] =
                IF ~parsed.ok
                THEN [started EXCEPT
                        !.pc = "done",
                        !.response = [status |-> 400,
                                      body |-> [error |-> "Invalid date format, use YYYY-MM-DD"]]]
                ELSE [started EXCEPT
                        !.pc = "api_fetch",
                        !.call = StartCall("get_appointment_data", parsed.date)]]
    /\ UNCHANGED <<database, cronVars, dbVars, reqVars, connections>>

\* _get_connection
ConcConnect(r) ==
    /\ requests[r].call.pc = "connect"
    /\ \/ LET h == NewConnection(connections) IN
          /\ connections' = [g \in DOMAIN connections \cup {h} |->
                                IF g = h THEN [rows |-> <<>>] ELSE connections[g]]
          /\ requests' = [requests EXCEPT
                            ![r].call.conn = h,
                            ![r].call.pc = "execute",
                            ![r].overlapped = @ \/ DOMAIN connections # {}]
       \/ /\ requests' = [requests EXCEPT
                            ![r].call.exc = ConnectError(requests[r].call.op),
                            ![r].call.pc = "returned"]
          /\ UNCHANGED connections
    /\ UNCHANGED <<database, cronVars, dbVars, reqVars>>

\* cursor.execute: the first query of the call, or the broken-history query
ConcExecute(r) ==
    /\ requests[r].call.pc = "execute"
    /\ LET c == requests[r].call
           rows == IF c.query = 1
                   THEN QueryResult(c.op, c.arg, database)
                   ELSE _fetch_broken_history(database, PatNumsOf(c.val.appointments))
       IN  \/ /\ c.conn \in DOMAIN connections
              /\ connections' = [connections EXCEPT ![c.conn].rows = rows]
              /\ requests' = [requests EXCEPT ![r].call.pc = "fetch"]
           \/ /\ requests' = [requests EXCEPT ![r].call.exc = QueryError(c.op),
                                               ![r].call.pc = "close"]
              /\ UNCHANGED connections
    /\ UNCHANGED <<database, cronVars, dbVars, reqVars>>

\* cursor.fetchall and what the function does with the rows
ConcFetch(r) ==
    /\ requests[r].call.pc = "fetch"
    /\ LET c == requests[r].call IN
       IF c.conn \notin DOMAIN connections
       THEN requests' = [requests EXCEPT ![r].call.exc = QueryError(c.op),
                                         ![r].call.pc = "close"]
       ELSE LET rows == connections[c.conn].rows IN
            IF c.op = "get_appointment_data" /\ c.query = 1
            THEN IF PatNumsOf(rows.appointments) = {}
                 THEN requests' = [requests EXCEPT
                        ![r].call.val = [appointments |-> rows.appointments,
                                         broken_history |-> EmptyDict],
                        ![r].call.pc = "close"]
                 ELSE requests' = [requests EXCEPT
                        ![r].call.val = rows,
                        ![r].call.query = 2,
                        ![r].call.pc = "execute"]
            ELSE IF c.op = "get_appointment_data"
            THEN requests' = [requests EXCEPT
                    ![r].call.val = [appointments |-> c.val.appointments,
                                     broken_history |-> rows],
                    ![r].call.pc = "close"]
            ELSE requests' = [requests EXCEPT ![r].call.val = rows,
                                              ![r].call.pc = "close"]
    /\ UNCHANGED <<database, cronVars, dbVars, reqVars, connections>>

\* finally: conn.close()
ConcClose(r) ==
    /\ requests[r].call.pc = "close"
    /\ connections' = [h \in DOMAIN connections \ {requests[r].call.conn} |-> connections[h]]
    /\ requests' = [requests EXCEPT ![r].call.conn = 0, ![r].call.pc = "returned"]
    /\ UNCHANGED <<database, cronVars, dbVars, reqVars>>

\* search(): from the return of get_appointment_data to the call of get_last_visits
ConcSearchFetched(r) ==
    /\ requests[r].pc = "search_fetch"
    /\ requests[r].call.pc = "returned"
    /\ LET req == requests[r]
           found == SearchFilter(req.args.q, req.args.dob, req.args.phone,
                                 req.call.val.appointments)
       IN  requests' = [requests EXCEPT ![r] =
               IF req.call.exc.type = "RuntimeError"
               THEN [req EXCEPT !.pc = "done",
                                !.response = [status |-> 500,
                                              body |-> [error |-> "db_unavailable"]]]
               ELSE IF found.error # "none"
               THEN [req EXCEPT !.data = req.call.val,
                                !.pc = "done",
                                !.response = [status |-> 400,
                                              body |-> [error |-> found.error]]]
               ELSE [req EXCEPT !.data = req.call.val,
                                !.matches = found.matches,
                                !.pc = "search_visits",
                                !.call = StartLastVisits(PatNumsOf(found.matches))]]
    /\ UNCHANGED <<database, cronVars, dbVars, reqVars, connections>>

ConcSearchRespond(r) ==
    /\ requests[r].pc = "search_visits"
    /\ requests[r].call.pc = "returned"
    /\ requests' = [requests EXCEPT
            ![r].response = SearchResponse(requests[r].matches, requests[r].call.exc,
                                           requests[r].call.val),
            ![r].pc = "done"]
    /\ UNCHANGED <<database, cronVars, dbVars, reqVars, connections>>

ConcApiRespond(r) ==
    /\ requests[r].pc = "api_fetch"
    /\ requests[r].call.pc = "returned"
    /\ LET req == requests[r] IN
       requests' = [requests EXCEPT ![r] =
           IF req.call.exc.type = "RuntimeError"
           THEN [req EXCEPT !.pc = "done",
                            !.response = [status |-> 500,
                                          body |-> [error |-> req.call.exc.msg]]]
           ELSE [req EXCEPT
                   !.data = req.call.val,
                   !.pc = "done",
                   !.response =
                       [status |-> 200,
                        body |-> [date |-> IsoFormat(req.args.target_date),
                                  appointment_count |-> Len(req.call.val.appointments),
                                  appointments |-> req.call.val.appointments,
                                  broken_history |-> req.call.val.broken_history]]]]
    /\ UNCHANGED <<database, cronVars, dbVars, reqVars, connections>>

NextConc ==
    \E r \in RequestIds :
        \/ ConcSearchStart(r) \/ ConcApiStart(r)
        \/ ConcConnect(r) \/ ConcExecute(r) \/ ConcFetch(r) \/ ConcClose(r)
        \/ ConcSearchFetched(r) \/ ConcSearchRespond(r) \/ ConcApiRespond(r)

\* the practice's data on the day of the requests
InitConc ==
    /\ Init
    /\ database = TodayApts \cup OtherApts

SpecConc == InitConc /\ [][NextConc]_vars

\* the runs of scheduler.py and the edits of the crontab between them
NextCron == EditCrontab \/ UnsupportedPlatform \/ install_cron \/ remove_cron \/ show_status

SpecCron == Init /\ [][NextCron]_vars

\* the calls of the procedure-label helper
NextProc == SimplifyStart \/ SimplifyReturn \/ Finish

SpecProc == Init /\ [][NextProc]_vars

\* the calls of the narration-input formatter
NextFmt == FormatStart \/ FormatReturn \/ Finish

SpecFmt == Init /\ [][NextFmt]_vars

(***************************************************************************)
(* Properties of the kiosk search and of the data access, under Spec.      *)
(***************************************************************************)
SearchAnswered == pc = "done" /\ handler = "search"

SearchResults == response.body.results

\* the keys a kiosk record must not have: phone numbers, missed counts, notes
PrivateKeys ==
    {"HmPhone", "WirelessPhone", "phone", "Phone", "Note", "note", "notes", "Notes",
     "broken_history", "missed_count", "missed", "Email"}

\* C1: no record of a /kiosk/search answer, and no projection of a matched row
\* with or without a last visit, has a key for a phone number, a missed
\* appointment count or notes.
C1_NoPrivateKeys ==
    SearchAnswered /\ response.status = 200 =>
        /\ \A i \in 1..Len(SearchResults) : DOMAIN SearchResults[i] \cap PrivateKeys = {}
        /\ \A i \in 1..Len(matches) : \A lv \in {None, "March 01, 2025"} :
              DOMAIN _safe_fields(matches[i], lv) \cap PrivateKeys = {}

\* a search answered with a row that carries a mobile number, a home number and a note
C1_Witness ==
    /\ SearchAnswered /\ response.status = 200
    /\ \E i \in 1..Len(matches) :
          matches[i].WirelessPhone = "(555) 555-1234" /\ matches[i].Note = "anxious"
    /\ \E i \in 1..Len(matches) : matches[i].HmPhone = "555.1234"
    /\ Len(SearchResults) = Len(matches)

\* the seven fields the kiosk projection is said to be limited to
SevenFields ==
    {"PatFName", "PatLName", "time", "provider", "room", "procedure", "last_visit"}

\* C2 as stated: a kiosk record has the seven fields and no others.
C2_OnlySevenFields ==
    SearchAnswered /\ response.status = 200 =>
        \A i \in 1..Len(SearchResults) : DOMAIN SearchResults[i] = SevenFields

\* C2, amended: a kiosk record has the seven fields and the patient number
\* pat_num of its appointment, and no others.
C2_SevenFieldsAndPatNum ==
    SearchAnswered /\ response.status = 200 =>
        /\ Len(SearchResults) = Len(matches)
        /\ \A i \in 1..Len(SearchResults) :
              /\ DOMAIN SearchResults[i] = SevenFields \cup {"pat_num"}
              /\ SearchResults[i].pat_num = matches[i].PatNum

\* a search answered with three records or more
C2_Witness ==
    SearchAnswered /\ response.status = 200 /\ Len(SearchResults) >= 3

\* the answers that report an input-validation error
ValidationError ==
    /\ pc = "done"
    /\ handler \in {"search", "appointments"}
    /\ response.status = 400

\* C3 as stated: a request that ends in a validation error has made no
\* data access.
C3_ValidationBeforeAccess == ValidationError => db_calls = <<>>

\* C4: when the schedule was fetched and the last-visit lookup failed, the
\* answer is 200 with one record per matched row, in order, each with
\* last_visit null.
C4_LastVisitFailureDegrades ==
    SearchAnswered /\ db_op = "get_last_visits" /\ db_exc.type # "none" =>
        /\ response.status = 200
        /\ Len(SearchResults) = Len(matches)
        /\ \A i \in 1..Len(matches) :
              /\ SearchResults[i].pat_num = matches[i].PatNum
              /\ SearchResults[i].PatLName = matches[i].PatLName
              /\ SearchResults[i].last_visit = None

\* the lookup failed for matches that include a patient with a completed visit
C4_Witness ==
    /\ SearchAnswered /\ db_op = "get_last_visits" /\ db_exc.type = "RuntimeError"
    /\ response.status = 200
    /\ Len(SearchResults) >= 2
    /\ \E i \in 1..Len(matches) :
          matches[i].PatNum \in DOMAIN LastVisitsQuery(database, {matches[i].PatNum})

\* C5: whenever no data-access call is running (none was made, or the last
\* one has returned or raised) no connection is open, and a call holds at
\* most one connection.
C5_ConnectionsReleased ==
    /\ open_conns \in {0, 1}
    /\ db_pc \in {"none", "connect", "returned"} => open_conns = 0
    /\ pc \in {"idle", "done"} => open_conns = 0

\* a call that connected and whose query failed has raised
C5_Witness ==
    /\ db_pc = "returned"
    /\ db_op \in {"month_summary", "get_appointment_data"}
    /\ db_exc = QueryError(db_op)
    /\ open_conns = 0

(***************************************************************************)
(* Properties of the briefing files, under SpecCli.                        *)
(***************************************************************************)
\* C6 as stated: a later run never changes the content of a briefing file
\* that exists.
C6_ExistingFileNeverChanged ==
    \A name \in BriefingFileNames :
        files_before[name] # NoFile => files[name] = files_before[name]

\* C6, amended: a briefing file is written in one piece and never appended
\* to.  Only a successful --briefing run changes a file, only the file of its
\* target date, and the file then holds the header of that date followed by
\* the text of that run, whatever it held before; a second run for the same
\* date replaces the content.
C6_FileReplacedWhole ==
    /\ pc # "done" => files = files_before
    /\ \A name \in BriefingFileNames :
          files[name] # files_before[name] =>
              /\ handler = "cli" /\ args.briefing /\ response.status = 0
              /\ name = BriefingFileName(args.target_date)
              /\ \E now \in ClockTimes :
                    files[name] = BriefingHeader(args.target_date, now) \o briefing_text

\* a second run for a date has replaced the file of the first
C6_Witness ==
    /\ pc = "done" /\ handler = "cli"
    /\ \E name \in BriefingFileNames :
          /\ files_before[name] # NoFile
          /\ files[name] # files_before[name]
          /\ Len(files[name]) < Len(files_before[name])

(***************************************************************************)
(* Properties of the match modes of the kiosk search, under Spec.  They    *)
(* are stated for the requests whose schedule fetch succeeded.             *)
(***************************************************************************)
Fetched == data # NoData

\* The answer the handler gave is the outcome `found` of a filter.
AnsweredAs(found) ==
    IF found.error # "none"
    THEN response = [status |-> 400, body |-> [error |-> found.error]]
    ELSE /\ response.status = 200
         /\ matches = found.matches
         /\ Len(SearchResults) = Len(found.matches)
         /\ \A i \in 1..Len(found.matches) :
               /\ SearchResults[i].pat_num = found.matches[i].PatNum
               /\ SearchResults[i].PatLName = found.matches[i].PatLName
               /\ SearchResults[i].time = KioskTime(found.matches[i].AptDateTime)

\* C7: the answer is the one the first non-empty parameter gives alone, in
\* the order q, dob, phone: with q the other two have no effect, not even on
\* the error; with dob and no q the phone has none.
C7_Precedence ==
    SearchAnswered /\ Fetched =>
        LET apts == data.appointments IN
        /\ args.q # "" =>
              /\ AnsweredAs(SearchFilter(args.q, "", "", apts))
              /\ response.status = 200
        /\ args.q = "" /\ args.dob # "" =>
              AnsweredAs(SearchFilter("", args.dob, "", apts))
        /\ args.q = "" /\ args.dob = "" =>
              AnsweredAs(SearchFilter("", "", args.phone, apts))

\* q is answered although dob is no date and phone is too short
C7_Witness ==
    /\ SearchAnswered /\ Fetched
    /\ args.q = "Smi" /\ args.dob = "02/30/1985" /\ args.phone = "555123"
    /\ response.status = 200 /\ Len(matches) >= 2

SameLetter(c, d) ==
    \/ c = d
    \/ \E k \in 1..Len(UpperChars) :
          {c, d} = {CharAt(UpperChars, k), CharAt(LowerChars, k)}

\* name starts with q, letters compared without regard to case
PrefixIgnoringCase(name, q) ==
    /\ Len(q) <= Len(name)
    /\ \A i \in 1..Len(q) : SameLetter(CharAt(name, i), CharAt(q, i))

RECURSIVE DigitsOnly(_)
DigitsOnly(s) ==
    IF s = None \/ Len(s) = 0 THEN ""
    ELSE DigitsOnly(SubSeq(s, 1, Len(s) - 1))
         \o (IF SubSeq(s, Len(s), Len(s)) \in {"0", "1", "2", "3", "4", "5", "6", "7", "8", "9"}
             THEN SubSeq(s, Len(s), Len(s)) ELSE "")

HasSuffix(s, t) == \E k \in 0..Len(s) : SubSeq(s, k + 1, Len(s)) = t

\* C9: a phone search answers phone_short (400) when the query has fewer
\* than 7 digits, and otherwise exactly the rows whose mobile or home
\* number, reduced to digits, ends with the digits of the query.
C9_PhoneSuffix ==
    SearchAnswered /\ Fetched /\ args.q = "" /\ args.dob = "" /\ args.phone # "" =>
        LET digits == DigitsOnly(args.phone)
            Ends(a) == \/ HasSuffix(DigitsOnly(a.WirelessPhone), digits)
                       \/ HasSuffix(DigitsOnly(a.HmPhone), digits)
        IN  IF Len(digits) < 7
            THEN AnsweredAs([error |-> "phone_short", matches |-> <<>>])
            ELSE AnsweredAs([error |-> "none",
                             matches |-> SelectSeq(data.appointments, Ends)])

\* "5551234" finds "(555) 555-1234" and the home number "555.1234" and
\* leaves out "555-555-9999"
C9_Witness ==
    /\ SearchAnswered /\ Fetched /\ args.q = "" /\ args.dob = ""
    /\ args.phone = "5551234" /\ response.status = 200
    /\ \E i \in 1..Len(matches) : matches[i].WirelessPhone = "(555) 555-1234"
    /\ \E i \in 1..Len(matches) :
          matches[i].WirelessPhone = None /\ matches[i].HmPhone = "555.1234"
    /\ \E i \in 1..Len(data.appointments) :
          /\ data.appointments[i].HmPhone = "555-555-9999"
          /\ \A j \in 1..Len(matches) : matches[j].AptNum # data.appointments[i].AptNum

\* the lengths of the months, and the calendar's notion of a date
MonthLengths == <<31, 28, 31, 30, 31, 30, 31, 31, 30, 31, 30, 31>>

CalendarDate(y, m, d) ==
    /\ y >= 1 /\ y <= 9999 /\ m >= 1 /\ m <= 12 /\ d >= 1
    /\ d <= MonthLengths[m]
            + (IF m = 2 /\ y % 4 = 0 /\ (y % 100 # 0 \/ y % 400 = 0) THEN 1 ELSE 0)

\* C10: a birthdate search answers dob_invalid (400) unless dob is three
\* integers month/day/year that form a date, and otherwise exactly the rows
\* whose birthdate is that date and has a year of 1900 or later.
C10_BirthdateExact ==
    SearchAnswered /\ Fetched /\ args.q = "" /\ args.dob # "" =>
        LET parts == Split(args.dob, "/")
            ints == [i \in 1..Len(parts) |-> IntParse(parts[i])]
            wellFormed == /\ Len(parts) = 3
                          /\ \A i \in 1..3 : ints[i].ok
                          /\ CalendarDate(ints[3].value, ints[1].value, ints[2].value)
            Born(a) == /\ a.Birthdate # NoDate
                       /\ a.Birthdate = [year |-> ints[3].value, month |-> ints[1].value,
                                         day |-> ints[2].value]
                       /\ a.Birthdate.year >= 1900
        IN  /\ IF ~wellFormed
               THEN AnsweredAs([error |-> "dob_invalid", matches |-> <<>>])
               ELSE AnsweredAs([error |-> "none",
                                matches |-> SelectSeq(data.appointments, Born)])
            /\ response.status = 200 =>
                  \A i \in 1..Len(matches) : matches[i].Birthdate.year >= 1900

\* the sentinel date as the query, with a sentinel birthdate on the schedule
C10_Witness ==
    /\ SearchAnswered /\ Fetched /\ args.q = "" /\ args.dob = "01/01/0001"
    /\ response.status = 200 /\ Len(matches) = 0
    /\ \E i \in 1..Len(data.appointments) :
          data.appointments[i].Birthdate = MkDate(1, 1, 1)

(***************************************************************************)
(* Properties of the narration-input formatter, under SpecFmt.  They are   *)
(* stated on the text a call returned, read line by line.                  *)
(***************************************************************************)
FormatDone == pc = "done" /\ handler = "format"

TextLines == Split(response.body, "\n")

\* the Flags line of the appointment numbered i, "" when it has none
FlagsLine(i) ==
    LET lines == TextLines
        k == CHOOSE n \in 1..Len(lines) : StartsWith(lines[n], NatStr(i) \o ". ")
    IN  IF StartsWith(lines[k + 4], "   Flags    : ")
        THEN SubSeq(lines[k + 4], 15, Len(lines[k + 4]))
        ELSE ""

\* the broken-history count of a patient, 0 for a patient absent from it
MissedCount(pat_num) ==
    IF pat_num \in DOMAIN data.broken_history THEN data.broken_history[pat_num] ELSE 0

\* C11: an appointment carries the broken-appointments flag if and only if
\* the broken-history count of its patient is 2 or more (0 for a patient
\* absent from the history), and the flag text carries that count.
C11_BrokenFlag ==
    FormatDone =>
        \A i \in 1..Len(data.appointments) :
            LET missed == MissedCount(data.appointments[i].PatNum)
                flagged == Contains(FlagsLine(i), "broken appointments on record")
            IN  /\ flagged <=> missed >= 2
                /\ flagged => Contains(FlagsLine(i), "[!] " \o NatStr(missed)
                                                      \o " broken appointments on record")

\* a schedule with patients of count 1, 2 and 3 and a patient absent from the history
C11_Witness ==
    /\ FormatDone
    /\ {MissedCount(data.appointments[i].PatNum) : i \in 1..Len(data.appointments)}
          = {0, 1, 2, 3}
    /\ \E i \in 1..Len(data.appointments) :
          data.appointments[i].PatNum \notin DOMAIN data.broken_history
    /\ \E i \in 1..Len(data.appointments) :
          Contains(FlagsLine(i), "[!] 3 broken appointments on record")

\* the lines of the birthday summary, without its heading
BirthdaySection ==
    LET lines == TextLines
    IN  IF \E n \in 1..Len(lines) : lines[n] = "BIRTHDAY PATIENTS TODAY:"
        THEN LET h == CHOOSE n \in 1..Len(lines) : lines[n] = "BIRTHDAY PATIENTS TODAY:"
                 e == CHOOSE n \in (h + 1)..Len(lines) :
                         lines[n] = "" /\ \A m \in (h + 1)..(n - 1) : lines[m] # ""
             IN  SubSeq(lines, h + 1, e - 1)
        ELSE <<>>

InBirthdaySummary(apt) ==
    \E n \in 1..Len(BirthdaySection) :
        StartsWith(BirthdaySection[n],
                   "  - " \o FStr(apt.PatFName) \o " " \o FStr(apt.PatLName) \o " (turning ")

\* C12: an appointment whose patient's birthdate is missing or has a year
\* before 1900 never has the Birthday flag and its patient is never in the
\* birthday summary, whatever the month and day; with a year of 1900 or later
\* the flag is set if and only if month and day are today's.
C12_BirthdayFlag ==
    FormatDone =>
        \A i \in 1..Len(data.appointments) :
            LET apt == data.appointments[i]
                flagged == Contains(FlagsLine(i), "BIRTHDAY TODAY")
            IN  IF apt.Birthdate = NoDate \/ apt.Birthdate.year < 1900
                THEN ~flagged /\ ~InBirthdaySummary(apt)
                ELSE flagged <=> /\ apt.Birthdate.month = args.today.month
                                 /\ apt.Birthdate.day = args.today.day

\* on January 1 a schedule with a patient born 0001-01-01, a patient without
\* a birthdate and a patient with a real one
C12_Witness ==
    /\ FormatDone
    /\ args.today = MkDate(2025, 1, 1)
    /\ \E i \in 1..Len(data.appointments) :
          /\ data.appointments[i].Birthdate = MkDate(1, 1, 1)
          /\ ~Contains(FlagsLine(i), "BIRTHDAY TODAY")
    /\ \E i \in 1..Len(data.appointments) : data.appointments[i].Birthdate = NoDate
    /\ \E i \in 1..Len(data.appointments) :
          data.appointments[i].Birthdate = MkDate(1985, 3, 14)

\* minutes from appointment i to appointment j of the same day
MinutesApart(i, j) ==
    LET a == data.appointments[i].AptDateTime
        b == data.appointments[j].AptDateTime
    IN  (b.hour * 60 + b.minute) - (a.hour * 60 + a.minute)

\* i and j are appointments of one provider with none of that provider between them
AdjacentSameProvider(i, j) ==
    /\ i < j
    /\ data.appointments[i].ProvNum = data.appointments[j].ProvNum
    /\ \A k \in (i + 1)..(j - 1) :
          data.appointments[k].ProvNum # data.appointments[i].ProvNum

\* the appointment numbered i carries a flag that is none of new patient,
\* broken appointments and birthday
HasGapFlag(i) ==
    \E flag \in {Split(FlagsLine(i), "|")[n] : n \in 1..Len(Split(FlagsLine(i), "|"))} :
        /\ Strip(flag) # ""
        /\ ~Contains(flag, "NEW PATIENT")
        /\ ~Contains(flag, "broken appointments on record")
        /\ ~Contains(flag, "BIRTHDAY TODAY")

\* C13 as stated: of two adjacent appointments of one provider the later one
\* is flagged TightGapBefore when they are less than 10 minutes apart, and
\* one of them ScheduleGapAfter when they are more than 30 minutes apart, in
\* the text passed to the narration step.
C13_GapFlags ==
    FormatDone =>
        \A i, j \in 1..Len(data.appointments) :
            AdjacentSameProvider(i, j) =>
                /\ MinutesApart(i, j) < 10 => HasGapFlag(j)
                /\ MinutesApart(i, j) > 30 => HasGapFlag(i) \/ HasGapFlag(j)

\* C15: for a schedule of zero appointments the text is the header with a
\* count of 0 and the line "No appointments are scheduled for today.", and
\* nothing else, whatever the broken history holds.
C15_EmptySchedule ==
    FormatDone /\ Len(data.appointments) = 0 =>
        /\ Len(TextLines) = 4
        /\ StartsWith(TextLines[1], "DATE: ")
        /\ TextLines[2] = "TOTAL SCHEDULED APPOINTMENTS: 0"
        /\ TextLines[3] = ""
        /\ TextLines[4] = "No appointments are scheduled for today."

\* no appointments and a broken history with counts of 2 and more
C15_Witness ==
    /\ FormatDone /\ Len(data.appointments) = 0
    /\ \E p \in DOMAIN data.broken_history : data.broken_history[p] >= 2
    /\ Len(TextLines) = 4

(***************************************************************************)
(* Properties of the error handling of main.py and of /api/appointments.   *)
(***************************************************************************)
CliDone == pc = "done" /\ handler = "cli"

ApiDone == pc = "done" /\ handler = "appointments"

\* the call of get_appointment_data of this invocation has raised
FetchFailed == db_op = "get_appointment_data" /\ db_pc = "returned" /\ db_exc.type # "none"

\* the step at which it failed
FailedStep ==
    IF db_exc.msg = "Failed to connect to MySQL" THEN "connect"
    ELSE IF db_val = <<>> THEN "appointments"
    ELSE "broken_history"

\* C16: when get_appointment_data fails at any step, the CLI exits non-zero
\* with one error line, prints no JSON and issues no narration request, and
\* /api/appointments answers 500 with a body that has an error and nothing
\* else; the handler never holds the part that was fetched.
C16_NoPartialSchedule ==
    FetchFailed /\ pc = "done" =>
        /\ data = NoData
        /\ handler = "cli" =>
              /\ response.status # 0
              /\ Len(response.body) = 1
              /\ StartsWith(response.body[1], "ERROR fetching appointments: ")
              /\ narration_requests = <<>>
              /\ files = files_before
        /\ handler = "appointments" =>
              /\ response.status = 500
              /\ DOMAIN response.body = {"error"}
              /\ response.body.error = db_exc.msg

\* the broken-history query failed after two appointments had been fetched
C16_Witness ==
    /\ ApiDone /\ FetchFailed
    /\ FailedStep = "broken_history"
    /\ Len(db_val.appointments) >= 2
    /\ response.status = 500

\* the variables a run needs, and whether one of them is missing or empty
RequiredVariables(briefing) ==
    {"DB_HOST", "DB_USER", "DB_NAME"} \cup (IF briefing THEN {"ANTHROPIC_API_KEY"} ELSE {})

\* C17: a run with a required variable missing or empty makes no database
\* connection, no narration request and no file write, and exits non-zero.
C17_ConfigurationFirst ==
    handler = "cli" /\ ~(RequiredVariables(args.briefing) \subseteq args.env) =>
        /\ db_calls = <<>> /\ open_conns = 0 /\ db_pc = "none"
        /\ narration_requests = <<>>
        /\ files = files_before
        /\ pc = "done" /\ response.status # 0

\* a --briefing run for a date that parses, with only the API key missing
C17_Witness ==
    /\ CliDone
    /\ args.briefing /\ args.date = "2025-03-15"
    /\ args.env = {"DB_HOST", "DB_USER", "DB_NAME"}
    /\ response.status = 1

\* the four kinds of transport error
TransportErrors ==
    {"AuthenticationError", "RateLimitError", "APIConnectionError", "APIStatusError"}

\* C18: a run issues at most one narration request; when it ends in a
\* transport error the run exits non-zero with the message of that kind,
\* which is the message of no other kind, and writes no file.
C18_TransportErrors ==
    handler = "cli" =>
        /\ Len(narration_requests) <= 1
        /\ \A i \in 1..Len(narration_requests) :
              LET kind == narration_requests[i].outcome IN
              kind \in TransportErrors =>
                  /\ pc = "done" /\ response.status # 0
                  /\ response.body = <<"ERROR generating briefing: " \o NarrationMessage(kind)>>
                  /\ \A other \in TransportErrors \ {kind} :
                        NarrationMessage(other) # NarrationMessage(kind)
                  /\ files = files_before

\* a run ended by an authentication failure, which is also a status error
C18_Witness ==
    /\ CliDone
    /\ Len(narration_requests) = 1
    /\ narration_requests[1].outcome = "AuthenticationError"
    /\ response.status = 1

\* s is a date written YYYY-MM-DD
IsYearMonthDay(s) ==
    /\ Len(s) = 10
    /\ \A i \in 1..10 :
          IF i \in {5, 8} THEN SubSeq(s, i, i) = "-"
          ELSE SubSeq(s, i, i) \in
                  {"0", "1", "2", "3", "4", "5", "6", "7", "8", "9"}
    /\ CalendarDate(IntParse(SubSeq(s, 1, 4)).value, IntParse(SubSeq(s, 6, 7)).value,
                    IntParse(SubSeq(s, 9, 10)).value)

\* the answer for a request whose date is accepted: 500 with an error body
\* when data access failed, else the schedule of the date written as iso
ApiAnswerFor(iso) ==
    IF FetchFailed
    THEN response.status = 500 /\ DOMAIN response.body = {"error"}
    ELSE /\ response.status = 200
         /\ DOMAIN response.body
               = {"date", "appointment_count", "appointments", "broken_history"}
         /\ response.body.appointment_count = Len(response.body.appointments)
         /\ response.body.date = iso
         /\ \A i \in 1..Len(response.body.appointments) :
               IsoFormat(DateOf(response.body.appointments[i].AptDateTime)) = iso

Holders(h) ==
    {r \in RequestIds : requests[r].call.conn = h
                         /\ requests[r].call.pc \in {"execute", "fetch", "close"}}

\* what search() answers to these arguments when it is the only request:
\* the data of the day, or one of the failures of its own data access
SearchAloneAnswer(a, resp) ==
    IF a.q = "" /\ a.dob = "" /\ a.phone = ""
    THEN resp = [status |-> 400, body |-> [error |-> "Provide q, dob, or phone"]]
    ELSE LET found == SearchFilter(a.q, a.dob, a.phone,
                                   _fetch_appointments(database, Today))
             visits == LastVisitsQuery(database, PatNumsOf(found.matches))
         IN  \/ resp = [status |-> 500, body |-> [error |-> "db_unavailable"]]
             \/ /\ found.error # "none"
                /\ resp = [status |-> 400, body |-> [error |-> found.error]]
             \/ /\ found.error = "none"
                /\ \/ resp = SearchResponse(found.matches, NoExc, visits)
                   \/ resp = SearchResponse(found.matches,
                                            QueryError("get_last_visits"), EmptyDict)

\* what appointments() answers to these arguments when it is the only request
ApiAloneAnswer(a, resp) ==
    LET apts == _fetch_appointments(database, a.target_date) IN
    \/ /\ resp.status = 400
       /\ a.date_str \notin {None, ""}
       /\ ~FromIsoFormat(a.date_str).ok
    \/ /\ resp.status = 500
       /\ resp.body.error \in {"Failed to connect to MySQL", "Database query failed"}
    \/ /\ resp.status = 200
       /\ resp.body = [date |-> IsoFormat(a.target_date),
                       appointment_count |-> Len(apts),
                       appointments |-> apts,
                       broken_history |-> _fetch_broken_history(database, PatNumsOf(apts))]

\* C20: requests served at the same time do not interfere.  Every open
\* connection belongs to exactly one request, a request inside a call holds an
\* open connection, a finished request holds none, and the response of a
\* finished request is one that the same request gets when it is alone.
C20_IndependentRequests ==
    /\ \A h \in DOMAIN connections : Cardinality(Holders(h)) = 1
    /\ \A r \in RequestIds :
          /\ requests[r].call.pc \in {"execute", "fetch", "close"}
                => requests[r].call.conn \in DOMAIN connections
          /\ requests[r].pc = "done" =>
                /\ requests[r].call.conn = 0
                /\ IF requests[r].handler = "search"
                   THEN SearchAloneAnswer(requests[r].args, requests[r].response)
                   ELSE ApiAloneAnswer(requests[r].args, requests[r].response)

\* a search and a schedule request, both answered with data, whose data-access
\* calls were open at the same time
C20_Witness ==
    /\ \A r \in RequestIds : requests[r].pc = "done" /\ requests[r].response.status = 200
    /\ \E r \in RequestIds : requests[r].overlapped
    /\ \E r1, r2 \in RequestIds :
          /\ requests[r1].handler = "search"
          /\ Len(requests[r1].response.body.results) >= 1
          /\ requests[r2].handler = "appointments"
          /\ requests[r2].response.body.appointment_count >= 2

(***************************************************************************)
(* C21: the broken-appointment history has an entry for every patient      *)
(***************************************************************************)
\* the broken appointments of a patient in the appointment table
BrokenAppointments(p) == {a \in database : a.AptStatus = 5 /\ a.PatNum = p}

\* C21: the mapping returned by _fetch_broken_history, as /api/appointments
\* passes it on, has an entry for every patient of the schedule, and the entry
\* of a patient with no broken appointment is 0.
C21_EntryForEveryPatient ==
    (ApiDone /\ response.status = 200) =>
        \A p \in PatNumsOf(response.body.appointments) :
            /\ p \in DOMAIN response.body.broken_history
            /\ response.body.broken_history[p] = Cardinality(BrokenAppointments(p))

(***************************************************************************)
(* C22, C24: the procedure labels of the kiosk                             *)
(***************************************************************************)
SimplifyDone == pc = "done" /\ handler = "simplify"

\* the code of a comma-separated part: trimmed, leading '#' removed, the text
\* after the first '-' when there is one
CodeOfPart(part) ==
    LET t == LStrip(Strip(part), {"#"})
        dashes == {i \in 1..Len(t) : SubSeq(t, i, i) = "-"}
    IN  IF dashes = {} THEN t
        ELSE SubSeq(t, (CHOOSE i \in dashes : \A j \in dashes : i <= j) + 1, Len(t))

KeyIn(i, code) == Contains(Lower(code), Lower(_PROC_MAP[i][1]))

\* label is the label of the first table entry, in table order, whose key is a
\* case-insensitive substring of code, or "Dental Visit" when no key is
IsLabelOf(code, label) ==
    \/ /\ \A i \in 1..Len(_PROC_MAP) : ~KeyIn(i, code)
       /\ label = "Dental Visit"
    \/ \E i \in 1..Len(_PROC_MAP) :
          /\ KeyIn(i, code)
          /\ \A j \in 1..(i - 1) : ~KeyIn(j, code)
          /\ label = _PROC_MAP[i][2]

\* the labels of the returned text
ReturnedLabels ==
    LET pieces == Split(response.body, ",")
    IN  [i \in 1..Len(pieces) |-> LStrip(pieces[i], {" "})]

\* C22: _simplify_proc returns "Dental Visit" for an empty input; otherwise
\* the returned text is never empty and is the ", "-joined list of the labels
\* of the comma-separated parts (first matching table entry, or "Dental
\* Visit"), each label once, in the order of first occurrence.
C22_SimplifyProc ==
    SimplifyDone =>
        IF args.raw \in {None, ""} THEN response.body = "Dental Visit"
        ELSE LET parts == Split(args.raw, ",")
                 out == ReturnedLabels
                 PartsOf(l) == {i \in 1..Len(parts) : IsLabelOf(CodeOfPart(parts[i]), l)}
                 First(l) == CHOOSE i \in PartsOf(l) : \A j \in PartsOf(l) : i <= j
             IN  /\ response.body # ""
                 /\ response.body = Join(out, ", ")
                 /\ \A a, b \in 1..Len(out) : a # b => out[a] # out[b]
                 /\ \A a \in 1..Len(out) : PartsOf(out[a]) # {}
                 /\ \A i \in 1..Len(parts) : \E a \in 1..Len(out) : i \in PartsOf(out[a])
                 /\ \A a, b \in 1..Len(out) : a < b => First(out[a]) < First(out[b])

\* four parts, one label repeated: three labels in first-occurrence order
C22_Witness ==
    /\ SimplifyDone
    /\ args.raw = "BWX, Pro, Ex, BWX"
    /\ response.body = "X-Rays, Cleaning, Exam"

\* C24: a description that is exactly a key of the procedure table is
\* simplified to the label the table pairs with that key.
C24_NoEntryShadowed ==
    SimplifyDone =>
        \A i \in 1..Len(_PROC_MAP) :
            args.raw = _PROC_MAP[i][1] => response.body = _PROC_MAP[i][2]

(***************************************************************************)
(* C23: the cron job of the daily briefing                                 *)
(***************************************************************************)
\* the positions of the jobs tagged dental-daily-briefing
TaggedJobs(tab) == {i \in 1..Len(tab) : tab[i].comment = "dental-daily-briefing"}

\* the jobs with another comment, in file order
UntaggedJobs(tab) ==
    LET Other(job) == job.comment # "dental-daily-briefing"
    IN  SelectSeq(tab, Other)

\* C23: after install_cron the crontab holds exactly one job tagged
\* dental-daily-briefing, scheduled 0 8 * * *; after remove_cron it holds
\* none; either way the jobs with other comments are as they were.
C23_OneTaggedJob ==
    /\ cron_op = "install" =>
          /\ Cardinality(TaggedJobs(crontab)) = 1
          /\ \A i \in TaggedJobs(crontab) : crontab[i].slices = "0 8 * * *"
          /\ UntaggedJobs(crontab) = UntaggedJobs(crontab_before)
    /\ cron_op = "remove" =>
          /\ TaggedJobs(crontab) = {}
          /\ UntaggedJobs(crontab) = UntaggedJobs(crontab_before)

\* install_cron on a crontab that held two tagged jobs and one with a
\* comment that only begins with the tag
C23_Witness ==
    /\ cron_op = "install"
    /\ Cardinality(TaggedJobs(crontab_before)) = 2
    /\ Len(UntaggedJobs(crontab_before)) = 1
    /\ UntaggedJobs(crontab)[1].comment = "dental-daily-briefing-old"
    /\ Len(crontab) = 2

(***************************************************************************)
(* C25: the date of the narration input                                    *)
(***************************************************************************)
\* C25: in a run of the CLI for the date D, the text sent to the narration
\* describes D: its DATE header is D, and the whole text (Birthday flags and
\* ages included) is what the formatter gives for the data fetched when its
\* "today" is D.
C25_NarrationDescribesTargetDate ==
    \A i \in 1..Len(narration_requests) :
        /\ StartsWith(narration_requests[i].content,
                      "DATE: " \o StrfWeekdayDate(args.target_date) \o "\n")
        /\ \E key_order \in KeyOrders(data.broken_history) :
              narration_requests[i].content
                  = _format_data_for_prompt(data, args.target_date, key_order)

(***************************************************************************)
(* C26: the briefing file is written only after a successful narration     *)
(***************************************************************************)
\* the texts of the text deltas of a stream, joined in arrival order
RECURSIVE DeltaText(_)
DeltaText(events) ==
    IF events = <<>> THEN ""
    ELSE LET last == events[Len(events)]
         IN  DeltaText(SubSeq(events, 1, Len(events) - 1))
             \o (IF last.type = "thinking_delta" THEN "" ELSE last.text)

\* the narration call of this run has completed successfully
NarrationSucceeded ==
    Len(narration_requests) = 1 /\ narration_requests[1].outcome = "ok"

NarrationFailed ==
    Len(narration_requests) = 1 /\ narration_requests[1].outcome # "ok"

RuleLine == "============================================================"

\* C26: in a --briefing run no briefing file changes before the narration
\* call has completed successfully; when data access or narration fails the
\* run exits non-zero and every briefing file is as it was; when narration
\* succeeds the file of the target date holds the title line, the rule line,
\* an empty line and then exactly the text deltas of the stream, joined in
\* arrival order, the thinking deltas left out.
C26_FileAfterNarration ==
    (handler = "cli" /\ args.briefing) =>
        /\ files # files_before => (NarrationSucceeded /\ pc = "done")
        /\ (pc = "done" /\ (FetchFailed \/ NarrationFailed)) =>
              (response.status # 0 /\ files = files_before)
        /\ (pc = "done" /\ NarrationSucceeded) =>
              /\ response.status = 0
              /\ \E now \in ClockTimes :
                    files[IsoFormat(args.target_date) \o ".txt"]
                        = "Daily Dental Briefing -- " \o IsoFormat(args.target_date)
                          \o " (generated " \o now \o ")\n" \o RuleLine \o "\n\n"
                          \o DeltaText(narration_requests[1].events)

\* a first briefing for the date, from a stream of a thinking delta and a
\* text delta
C26_Witness ==
    /\ CliDone /\ args.briefing /\ NarrationSucceeded
    /\ files_before[IsoFormat(args.target_date) \o ".txt"] = NoFile
    /\ narration_requests[1].events
          = << [type |-> "thinking_delta", text |-> "hmm"],
               [type |-> "text_delta", text |-> "Quiet day."] >>
    /\ EndsWith(files[IsoFormat(args.target_date) \o ".txt"], "\n\nQuiet day.")

=============================================================================
